---- MODULE Spec2Model ----
(***************************************************************************)
(* A model of the finance route (app/api/finance/route.ts) and of the      *)
(* retry executor it shares with the live-search route                     *)
(* (app/api/perplexity/route.ts).                                          *)
(*                                                                         *)
(* The retry executor is a small machine (pc, attempt, outcomes, delay);   *)
(* RetrySpec runs it alone under every policy of a bounded set, Spec runs  *)
(* one request through the finance route, which enters the executor at its *)
(* three call sites.  FuseSpec runs STEP 2 alone and NormalizeSpec runs the *)
(* handling of the model's response alone, each on a bounded set of inputs. *)
(* LiveSpec runs one request through the live-search route, PairSpec two   *)
(* finance requests in flight together, LayeredSpec the finance route with *)
(* the live-search route behind its STEP 1b, and ChatSpec the handlers of  *)
(* the chat page (app/finance/page.tsx) that store the route's answer.     *)
(***************************************************************************)
EXTENDS Integers, Sequences, FiniteSets, TLC

VARIABLES
  site,        \* which call site runs the executor: "test", "portfolio", "search", "gen"
  policy,      \* [maxRetries, initialDelay, maxDelay, hasList] of the running call
  attempt,     \* the loop variable of retryWithBackoff
  pc,          \* "off", "call", "sleep", "returned", "thrown"
  outcomes,    \* what each call of fn did, in order
  delay,       \* the delay of the sleep under way (0 outside a sleep)
  jitter,      \* Math.random() * 1000 as drawn for that delay
  sleeps,      \* the number of sleeps started
  lastError,   \* retryWithBackoff's lastError
  result,      \* the value returned or the error thrown by retryWithBackoff
  rpc,         \* where POST stands: "start", "step1a", "step1b", "gen", "done", ...
  req,         \* the request body
  anthropicMessages,   \* the conversation built for the model
  stockData,           \* STEP 1a's result
  perplexityData,      \* STEP 1b's result
  extractedUserQuery,  \* the text of the last message
  stages,      \* per call site: "skipped", "entered", "returned" or "thrown"
  genResult,   \* what the generative call returned or threw
  response,    \* the Response POST answers with
  responses,   \* the number of Responses produced
  peer,        \* the locals of a second request in flight, while it is suspended
  upstream,    \* the calls made to the search service: what each was answered
  chat         \* the chat page: the handler under way, its messages, isLoading

retryVars == <<site, policy, attempt, pc, outcomes, delay, jitter, sleeps, lastError, result>>

routeVars == <<rpc, req, anthropicMessages, stockData, perplexityData, extractedUserQuery,
               stages, genResult, response, responses>>

vars == <<retryVars, routeVars, peer, upstream, chat>>

----------------------------------------------------------------------------
(* Bounds of the model. *)

\* The executor is run alone with maxRetries in 0..MaxRetriesBound.
MaxRetriesBound == 3

\* No run of the model makes more calls of fn than this.
MaxCalls == 4

\* The responses of the model that the choice of the tool invocation and the
\* content are checked on have at most this many blocks.
MaxBlocks == 3

----------------------------------------------------------------------------
(* Errors and values. *)

\* error?.status || error?.response?.status || error?.statusCode is falsy:
\* the error carries no status code.
NoStatus == 0

\* The status codes an upstream answers with in the model: a terminal client
\* error, the rate limit, a server error of the retryable list and one not in it.
Statuses == {401, 429, 501, 503}

\* The list every call site of the finance route passes.
RetryableList == {429, 500, 502, 503, 504}

\* Math.random() * 1000 lies in [0, 1000).
JitterScale == 1000

Jitters == {0, JitterScale - 1}

NoError == [ok |-> FALSE, status |-> NoStatus, val |-> "null", at |-> 0, src |-> ""]

\* new Error("Max retries exceeded")
GenericError ==
  [ok |-> FALSE, status |-> NoStatus, val |-> "Max retries exceeded", at |-> 0, src |-> ""]

\* No second request is in flight.
NoPeer == [none |-> TRUE]

\* No handler of the chat page is under way.
NoChat == [handler |-> "none", messages |-> <<>>, isLoading |-> FALSE]

NoResult == [ok |-> FALSE, status |-> NoStatus, val |-> "pending", at |-> 0, src |-> ""]

\* What a call of fn did: the n-th call at call site s resolved to v, or threw
\* an error of class c (an Error, or the SDK's APIError) with status code st.
Success(s, v, n) == [ok |-> TRUE, status |-> NoStatus, val |-> v, at |-> n, src |-> s]

Failure(s, c, st, n) == [ok |-> FALSE, status |-> st, val |-> c, at |-> n, src |-> s]

Min(a, b) == IF a <= b THEN a ELSE b

\* The values fn resolves to when the executor is run alone.
TestValues == {"v1", "v2"}


----------------------------------------------------------------------------
(* The request of the finance route. *)

\* A string content, and an array content (an ordered sequence of typed parts).
Str(s) == [kind |-> "string", text |-> s, parts |-> <<>>]

Arr(ps) == [kind |-> "array", text |-> "", parts |-> ps]

\* { type: "text", text: c }: c is a string content in a request; the file
\* handling of the route stores messages[last].content there, whatever it is.
TextPart(c) == [type |-> "text", text |-> c, media |-> "", data |-> ""]

\* { type: "image", source: { type: "base64", media_type, data } }
ImagePart(m, d) == [type |-> "image", text |-> Str(""), media |-> m, data |-> d]

Turn(r, c) == [role |-> r, content |-> c]

\* The text of a user's question.
Query == "What is AAPL?"

\* The last turn of a request: empty, whitespace-only or plain text, an image
\* alone, an image with a text part, and a plain text with the assistant role.
LastTurns ==
  {Turn("user", Str("")), Turn("user", Str(" ")), Turn("user", Str(Query)),
   Turn("user", Arr(<<ImagePart("image/png", "iVBORw0=")>>)),
   Turn("user", Arr(<<ImagePart("image/png", "iVBORw0="), TextPart(Str(Query))>>)),
   Turn("assistant", Str(Query))}

\* The turns before the last one.
RECURSIVE PriorTurns(_)
PriorTurns(n) ==
  IF n = 0 THEN <<>>
  ELSE PriorTurns(n - 1) \o
       <<IF n % 2 = 1 THEN Turn("user", Str("Hi")) ELSE Turn("assistant", Str("Hello"))>>

\* A request carries at most MaxPrior turns before its last one.
MaxPrior == 1

Conversations ==
  {<<>>} \cup {PriorTurns(n) \o <<t>> : n \in 0..MaxPrior, t \in LastTurns}

\* messages of the request body: absent, not an array, or an array of turns.
MessagesValues ==
  {[kind |-> "absent", turns |-> <<>>], [kind |-> "notArray", turns |-> <<>>]}
    \cup {[kind |-> "array", turns |-> c] : c \in Conversations}

File(p, b, m, t) ==
  [present |-> p, base64 |-> b, mediaType |-> m, isText |-> t, fileName |-> "notes.txt"]

NoFile == [present |-> FALSE, base64 |-> "", mediaType |-> "", isText |-> FALSE,
           fileName |-> ""]

\* fileData: absent, without base64, a text file (valid and invalid base64), an
\* image, a file of another media type, and a binary file with no media type.
FileValues ==
  {NoFile,
   File(TRUE, "", "text/plain", TRUE),
   File(TRUE, "aGVsbG8=", "text/plain", TRUE),
   File(TRUE, "%%%", "text/plain", TRUE),
   File(TRUE, "iVBORw0=", "image/png", FALSE),
   File(TRUE, "JVBERi0=", "application/pdf", FALSE),
   File(TRUE, "JVBERi0=", "undefined", FALSE)}

Icf(p, f, c, b, a) ==
  [present |-> p, firm_name |-> f, client_id |-> c, investment_banker_id |-> b,
   firm_account_name |-> a]

\* icfMapping: absent, complete, and with one of firm_name, client_id and
\* investment_banker_id missing.
IcfValues ==
  {Icf(FALSE, "", "", "", ""),
   Icf(TRUE, "Acme", "c1", "b1", "Growth"),
   Icf(TRUE, "", "c1", "b1", "Growth"),
   Icf(TRUE, "Acme", "", "b1", "Growth"),
   Icf(TRUE, "Acme", "c1", "", "Growth")}

Requests ==
  [messages : MessagesValues, model : {"", "claude"}, fileData : FileValues,
   includeLiveData : BOOLEAN, icfMapping : IcfValues]

----------------------------------------------------------------------------
(* POST: input validation, message conversion, file handling. *)

\* A validation without the test of the model.
ValidationErrorMessagesOnly(r) ==
  IF r.messages.kind # "array" THEN "Messages array is required" ELSE ""

\* !messages || !Array.isArray(messages), then !model
ValidationError(r) ==
  IF r.messages.kind # "array" THEN "Messages array is required"
  ELSE IF r.model = "" THEN "Model selection is required"
  ELSE ""

\* A conversion that takes every turn for the user's.
ConvertMessagesAsUser(turns) == [i \in 1..Len(turns) |-> Turn("user", turns[i].content)]

\* messages.map(msg => ({ role: msg.role, content: msg.content }))
ConvertMessages(turns) == [i \in 1..Len(turns) |-> Turn(turns[i].role, turns[i].content)]

\* atob(base64) throws on what is not base64.
ValidBase64(b) == b \in {"aGVsbG8=", "iVBORw0=", "JVBERi0="}

\* decodeURIComponent(escape(atob(base64)))
DecodeText(b) == IF b = "aGVsbG8=" THEN "hello" ELSE "binary"

\* mediaType.startsWith("image/")
IsImage(m) == Len(m) >= 6 /\ SubSeq(m, 1, 6) = "image/"

ReplaceLast(msgs, t) == [msgs EXCEPT ![Len(msgs)] = t]

FileOutcome(e, msgs) == [error |-> e, messages |-> msgs]

\* The block "Handle file in the latest message": the 400 it answers with, or
\* the conversation it leaves.
HandleFile(r, msgs) ==
  LET f == r.fileData
      turns == r.messages.turns
  IN IF ~f.present THEN FileOutcome("", msgs)
     ELSE IF f.base64 = "" THEN FileOutcome("No file data", msgs)
     ELSE IF f.isText
       THEN IF ~ValidBase64(f.base64) \/ Len(turns) = 0
            THEN FileOutcome("Failed to process file content", msgs)
            ELSE FileOutcome("", ReplaceLast(msgs,
                   Turn("user", Arr(<<
                     TextPart(Str("File contents of " \o f.fileName \o ":\n\n"
                                  \o DecodeText(f.base64))),
                     TextPart(turns[Len(turns)].content)>>))))
     ELSE IF f.mediaType = "undefined"
       THEN FileOutcome("Failed to process file content", msgs)
     ELSE IF IsImage(f.mediaType)
       THEN IF Len(turns) = 0
            THEN FileOutcome("Failed to process file content", msgs)
            ELSE FileOutcome("", ReplaceLast(msgs,
                   Turn("user", Arr(<<
                     ImagePart(f.mediaType, f.base64),
                     TextPart(turns[Len(turns)].content)>>))))
     ELSE FileOutcome("", msgs)

----------------------------------------------------------------------------
(* POST: STEP 1 (supplementary data) and STEP 2 (the rebuilt prompt). *)

RECURSIVE JoinWith(_, _)
\* Array.prototype.join
JoinWith(strs, sep) ==
  IF Len(strs) = 0 THEN ""
  ELSE IF Len(strs) = 1 THEN strs[1]
  ELSE strs[1] \o sep \o JoinWith(Tail(strs), sep)

\* The white space that trim removes, as far as the model's strings have it.
IsSpace(c) == c \in {" ", "\n", "\t", "\r"}

RECURSIVE TrimLeft(_)
TrimLeft(str) ==
  IF Len(str) > 0 /\ IsSpace(SubSeq(str, 1, 1)) THEN TrimLeft(SubSeq(str, 2, Len(str))) ELSE str

RECURSIVE TrimRight(_)
TrimRight(str) ==
  IF Len(str) > 0 /\ IsSpace(SubSeq(str, Len(str), Len(str)))
  THEN TrimRight(SubSeq(str, 1, Len(str) - 1)) ELSE str

\* String.prototype.trim
Trim(str) == TrimRight(TrimLeft(str))

\* parts.filter(c => c.type === 'text').map(c => c.text)
RECURSIVE TextsOf(_)
TextsOf(parts) ==
  IF Len(parts) = 0 THEN <<>>
  ELSE (IF parts[1].type = "text" THEN <<parts[1].text.text>> ELSE <<>>) \o TextsOf(Tail(parts))

\* extractedUserQuery, taken from the request's own last message
ExtractQuery(r) ==
  LET turns == r.messages.turns
  IN IF ~(r.includeLiveData /\ Len(turns) > 0) THEN ""
     ELSE LET c == turns[Len(turns)].content
          IN IF c.kind = "string" THEN c.text ELSE JoinWith(TextsOf(c.parts), " ")

\* A test of icfData that leaves investment_banker_id out.
IcfCompleteWithoutBanker(icf) == icf.present /\ icf.firm_name # "" /\ icf.client_id # ""

\* icfData && icfData.firm_name && icfData.client_id && icfData.investment_banker_id
IcfComplete(icf) ==
  icf.present /\ icf.firm_name # "" /\ icf.client_id # "" /\ icf.investment_banker_id # ""

\* STEP 1a is entered.
FetchesPortfolio(r) == r.includeLiveData /\ IcfComplete(r.icfMapping)

\* STEP 1b calls the live-search route.
CallsSearch(r) ==
  r.includeLiveData /\ Len(r.messages.turns) > 0 /\ Trim(ExtractQuery(r)) # ""

NoStock == [present |-> FALSE, isObject |-> FALSE, json |-> ""]

\* The bodies the portfolio service answers a 2xx with: an object, and null.
PortfolioValues == {"holdings", "null"}

\* stockData = await response.json(); json is JSON.stringify(stockData, null, 2)
StockOf(v) ==
  IF v = "holdings"
  THEN [present |-> TRUE, isObject |-> TRUE, json |-> "{\n  \"AAPL\": 10\n}"]
  ELSE NoStock

NoPerplexity == [present |-> FALSE, content |-> "", citationCount |-> 0]

\* The bodies the live-search route answers a 200 with: content with two
\* citations, content with none, and no content.
SearchValues == {"cited", "uncited", "empty"}

SearchBody(v) ==
  [success |-> TRUE,
   content |-> IF v = "empty" THEN "" ELSE "AAPL trades at 227.",
   citations |-> IF v = "cited" THEN 2 ELSE 0]

\* if (responseData.success && responseData.content) perplexityData = {...}
PerplexityOf(v) ==
  LET b == SearchBody(v)
  IN IF b.success /\ b.content # ""
     THEN [present |-> TRUE, content |-> b.content, citationCount |-> b.citations]
     ELSE NoPerplexity

\* A small non-negative integer in decimal.
Digit(n) == SubSeq("0123456789", n + 1, n + 1)

\* typeof stockData === 'object' ? JSON.stringify(stockData, null, 2).substring(0, 3000)
\*                                : String(stockData).substring(0, 3000)
PortfolioBudget == 3000

\* A summary that is the whole rendering.
StockSummaryUncut(sd) == sd.json

StockSummary(sd) == SubSeq(sd.json, 1, Min(Len(sd.json), PortfolioBudget))

OrDefault(str, d) == IF str = "" THEN d ELSE str

\* A prompt with the search section ahead of the portfolio section.
EnhancedPromptSearchFirst(query, sd, pd, icf) ==
  "Original Query: " \o query \o "\n\n"
    \o (IF pd.present THEN "---\n**LIVE DATA FROM WEB SEARCH (Latest Market Information):**\n"
                            \o pd.content \o "\n---\n\n" ELSE "")
    \o (IF sd.present THEN "---\n**STOCK/PORTFOLIO DATA (Current Holdings & Performance):**\n"
                            \o StockSummary(sd) \o "\n---\n\n" ELSE "")
    \o "Please analyze the above query using:\n"
    \o (IF sd.present THEN "- The current stock/portfolio data provided above\n" ELSE "")
    \o (IF pd.present THEN "- The latest live market data from web search\n" ELSE "")
    \o (IF sd.present /\ pd.present
        THEN "- Combine both sources for comprehensive analysis" ELSE "")

\* enhancedPrompt
EnhancedPrompt(query, sd, pd, icf) ==
  LET instructions ==
        (IF sd.present THEN <<"- The current stock/portfolio data provided above">> ELSE <<>>)
        \o (IF pd.present THEN <<"- The latest live market data from web search">> ELSE <<>>)
        \o (IF sd.present /\ pd.present
            THEN <<"- Combine both sources for comprehensive analysis">> ELSE <<>>)
  IN "Original Query: " \o query \o "\n\n"
     \o (IF sd.present
         THEN "---\n**STOCK/PORTFOLIO DATA (Current Holdings & Performance for "
              \o OrDefault(icf.firm_account_name, "Account") \o " at "
              \o OrDefault(icf.firm_name, "Firm") \o "):**\n"
              \o StockSummary(sd) \o "\n---\n\n"
         ELSE "")
     \o (IF pd.present /\ pd.content # ""
         THEN "---\n**LIVE DATA FROM WEB SEARCH (Latest Market Information):**\n"
              \o pd.content \o "\n\n**Sources:** " \o Digit(pd.citationCount)
              \o " citation(s) found\n---\n\n"
         ELSE "")
     \o "Please analyze the above query using:\n" \o JoinWith(instructions, "\n")
     \o "\n\nIncorporate all available information into your analysis and visualizations."

\* contentArray.find(c => c.type === 'text'): its index, 0 when there is none
RECURSIVE FirstText(_, _)
FirstText(parts, i) ==
  IF i > Len(parts) THEN 0
  ELSE IF parts[i].type = "text" THEN i
  ELSE FirstText(parts, i + 1)

\* An update that takes every content for a string.
RewriteLastAsString(msgs, prompt) == [msgs EXCEPT ![Len(msgs)].content = Str(prompt)]

\* The update of the last message with the enhanced prompt.
RewriteLast(msgs, prompt) ==
  LET n == Len(msgs)
      c == msgs[n].content
  IN IF c.kind = "string" THEN [msgs EXCEPT ![n].content = Str(prompt)]
     ELSE LET i == FirstText(c.parts, 1)
          IN IF i > 0
             THEN [msgs EXCEPT ![n].content.parts[i].text = Str(prompt)]
             ELSE [msgs EXCEPT ![n].content.parts = <<TextPart(Str(prompt))>> \o c.parts]

\* The test of STEP 2 without its last conjunct.
RebuildsWithoutSources(r, query, sd, pd) == r.includeLiveData /\ query # ""

\* includeLiveData && extractedUserQuery && (stockData || perplexityData)
Rebuilds(r, query, sd, pd) ==
  r.includeLiveData /\ query # "" /\ (sd.present \/ pd.present)

\* STEP 2: the conversation sent to the model.
Fuse(r, msgs, query, sd, pd) ==
  IF Rebuilds(r, query, sd, pd)
  THEN RewriteLast(msgs, EnhancedPrompt(query, sd, pd, r.icfMapping))
  ELSE msgs

----------------------------------------------------------------------------
(* The model's response and processToolResponse. *)

\* The scalar values of a data record; Undefined is a field the record lacks.
Num(n) == [t |-> "num", n |-> n, s |-> ""]

Text(str) == [t |-> "str", n |-> 0, s |-> str]

Bool(b) == [t |-> "bool", n |-> IF b THEN 1 ELSE 0, s |-> ""]

\* The JSON value null.
NullValue == [t |-> "null", n |-> 0, s |-> ""]

Undefined == [t |-> "undef", n |-> 0, s |-> ""]

Field(k, v) == [k |-> k, v |-> v]

\* item[key]
RECURSIVE Get(_, _)
Get(row, key) ==
  IF Len(row) = 0 THEN Undefined
  ELSE IF row[1].k = key THEN row[1].v
  ELSE Get(Tail(row), key)

\* The truthiness of a scalar.
Truthy(v) ==
  (v.t = "num" /\ v.n # 0) \/ (v.t = "str" /\ v.s # "") \/ (v.t = "bool" /\ v.n = 1)

\* a || b
OrElse(a, b) == IF Truthy(a) THEN a ELSE b

\* a ?? b
Coalesce(a, b) == IF a.t \in {"undef", "null"} THEN b ELSE a

\* The values of the data field: an array of records; a string, with the value
\* JSON.parse gives for it (inner = <<v>>) or that is not JSON (inner = <<>>);
\* absent; and a value that is neither a string nor an array.
DArray(rows) == [kind |-> "array", rows |-> rows, inner |-> <<>>]

DString(inner) == [kind |-> "string", rows |-> <<>>, inner |-> inner]

DMissing == [kind |-> "missing", rows |-> <<>>, inner |-> <<>>]

DObject == [kind |-> "object", rows |-> <<>>, inner |-> <<>>]

\* JSON.stringify(v)
Stringify(v) == DString(<<v>>)

Series(k, l) == [key |-> k, label |-> l, stacked |-> "absent", color |-> ""]

Config(p, x) == [present |-> p, xAxisKey |-> x, title |-> "Chart"]

ChartConfig(p, ser) == [present |-> p, series |-> ser]

ToolInput(ct, cfg, d, cc) == [chartType |-> ct, config |-> cfg, data |-> d, chartConfig |-> cc]

Null == [null |-> TRUE]

Parsed(t, d) == [threw |-> t, data |-> d]

\* A block that parses twice and keeps the result of the first parse.
ParseDataKeepsFirst(d) ==
  IF d.kind # "string" THEN Parsed(FALSE, d)
  ELSE IF d.inner = <<>> THEN Parsed(TRUE, d)
  ELSE LET once == d.inner[1]
       IN IF once.kind # "string" THEN Parsed(FALSE, once)
          ELSE IF once.inner = <<>> THEN Parsed(TRUE, d)
          ELSE Parsed(FALSE, once)

\* A block that parses a string data once only.
ParseDataOnce(d) ==
  IF d.kind # "string" THEN Parsed(FALSE, d)
  ELSE IF d.inner = <<>> THEN Parsed(TRUE, d)
  ELSE Parsed(FALSE, d.inner[1])

\* The block that parses a string data: JSON.parse, and JSON.parse again when
\* the result is still a string.
ParseData(d) ==
  IF d.kind # "string" THEN Parsed(FALSE, d)
  ELSE IF d.inner = <<>> THEN Parsed(TRUE, d)
  ELSE LET once == d.inner[1]
       IN IF once.kind # "string" THEN Parsed(FALSE, once)
          ELSE IF once.inner = <<>> THEN Parsed(TRUE, d)
          ELSE Parsed(FALSE, once.inner[1])

\* A mapping that keeps the keys of the item.
PieRecordKeepsKeys(item, segmentKey, valueKey) ==
  <<Field(segmentKey, Get(item, segmentKey)), Field(valueKey, Get(item, valueKey))>>

\* The record a pie chart's item is mapped to.
PieRecord(item, segmentKey, valueKey) ==
  <<Field("segment",
          OrElse(Get(item, segmentKey),
                 OrElse(Get(item, "segment"),
                        OrElse(Get(item, "category"), Get(item, "name"))))),
    Field("value", Coalesce(Get(item, valueKey), Get(item, "value")))>>

\* The characters of a key are decimal digits.
AllDigits(k) == \A i \in 1..Len(k) : \E d \in 0..9 : SubSeq(k, i, i) = Digit(d)

\* The key is an integer index of an object: the canonical decimal form of a
\* non-negative integer.
IsIndexKey(k) ==
  /\ Len(k) > 0
  /\ AllDigits(k)
  /\ Len(k) > 1 => SubSeq(k, 1, 1) # "0"

\* The integer an index key stands for.
RECURSIVE IndexValue(_)
IndexValue(k) ==
  IF Len(k) = 0 THEN 0
  ELSE 10 * IndexValue(SubSeq(k, 1, Len(k) - 1))
         + (CHOOSE d \in 0..9 : SubSeq(k, Len(k), Len(k)) = Digit(d))

\* The entries whose keys are integer indexes, in ascending order of the index.
RECURSIVE IndexEntries(_)
IndexEntries(ser) ==
  LET ints == SelectSeq(ser, LAMBDA e : IsIndexKey(e.key))
  IN IF Len(ints) = 0 THEN <<>>
     ELSE LET m == CHOOSE i \in 1..Len(ints) :
                     \A j \in 1..Len(ints) :
                       IndexValue(ints[i].key) <= IndexValue(ints[j].key)
          IN <<ints[m]>> \o IndexEntries(SelectSeq(ints, LAMBDA e : e.key # ints[m].key))

\* Object.entries(chartData.chartConfig) and Object.keys(chartData.chartConfig):
\* a series is the chartConfig in the order its keys are declared in the
\* tool input; the own keys of the object come with the integer indexes
\* first, in ascending order, and then the other keys in that order.
ObjectEntries(ser) == IndexEntries(ser) \o SelectSeq(ser, LAMBDA e : ~IsIndexKey(e.key))

\* hsl(var(--chart-${index + 1}))
ChartColor(i) == "hsl(var(--chart-" \o Digit(i) \o "))"

\* A reduce that puts each series ahead of those before it.
ProcessedChartConfigReversed(ser) ==
  LET entries == ObjectEntries(ser)
      n == Len(entries)
  IN [i \in 1..n |-> [entries[n + 1 - i] EXCEPT !.color = ChartColor(n + 1 - i)]]

\* Object.entries(chartData.chartConfig).reduce(...)
ProcessedChartConfig(ser) ==
  LET entries == ObjectEntries(ser)
  IN [i \in 1..Len(entries) |-> [entries[i] EXCEPT !.color = ChartColor(i)]]

Processed(t, c, i) == [threw |-> t, chart |-> c, input |-> i]

\* processToolResponse(toolUseContent): whether it throws, the payload it
\* returns, and toolUseContent.input as it leaves it (chartData is that same
\* object, so the assignments to chartData.data and chartData.config reach it).
ProcessToolResponse(input) ==
  LET p == ParseData(input.data)
  IN IF p.threw THEN Processed(TRUE, Null, input)
     ELSE LET in1 == [input EXCEPT !.data = p.data]
          IN IF in1.chartType = "" \/ in1.data.kind # "array"
             THEN Processed(TRUE, Null, in1)
             ELSE IF in1.chartType = "pie"
               THEN LET rows == in1.data.rows
                        cc == in1.chartConfig
                        valueKey == IF cc.present /\ Len(cc.series) > 0
                                    THEN ObjectEntries(cc.series)[1].key ELSE "undefined"
                        segmentKey == OrDefault(in1.config.xAxisKey, "segment")
                        mapped == [i \in 1..Len(rows) |->
                                     PieRecord(rows[i], segmentKey, valueKey)]
                        in2 == [in1 EXCEPT !.data = DArray(mapped)]
                        in3 == [in2 EXCEPT !.config.xAxisKey = "segment"]
                    IN IF Len(rows) > 0 /\ (~cc.present \/ ~in1.config.present)
                       THEN Processed(TRUE, Null, in1)
                       ELSE IF ~in1.config.present THEN Processed(TRUE, Null, in2)
                       ELSE IF ~cc.present THEN Processed(TRUE, Null, in3)
                       ELSE Processed(FALSE,
                              [in3 EXCEPT !.chartConfig.series =
                                 ProcessedChartConfig(cc.series)], in3)
             ELSE IF ~in1.chartConfig.present THEN Processed(TRUE, Null, in1)
             ELSE Processed(FALSE,
                    [in1 EXCEPT !.chartConfig.series =
                       ProcessedChartConfig(in1.chartConfig.series)], in1)

TextBlock(t) == [type |-> "text", text |-> t, name |-> "", id |-> "", input |-> Null]

ToolBlock(n, i, in) == [type |-> "tool_use", text |-> "", name |-> n, id |-> i, input |-> in]

SalesRows ==
  <<<<Field("region", Text("US")), Field("sales", Num(10))>>,
    <<Field("region", Text("EU")), Field("sales", Num(5))>>>>

SalesSeries == ChartConfig(TRUE, <<Series("sales", "Sales")>>)

\* Tool inputs of the model: a bar chart with a native data array, a pie chart
\* whose data is JSON encoded twice, and a chart whose data is not JSON.
BarInput == ToolInput("bar", Config(TRUE, "region"), DArray(SalesRows), SalesSeries)

PieInput ==
  ToolInput("pie", Config(TRUE, "region"), Stringify(Stringify(DArray(SalesRows))), SalesSeries)

BadInput == ToolInput("bar", Config(TRUE, "region"), DString(<<>>), SalesSeries)

\* The responses of the model: text only, two text blocks, a tool invocation
\* only, text with a tool invocation, text with a malformed tool invocation,
\* and two tool invocations around a text.
GenValues == {"text", "texts", "tool", "textTool", "textBadTool", "tools"}

\* response.content
GenResponse(v) ==
  CASE v = "text" -> <<TextBlock("AAPL is up.")>>
    [] v = "texts" -> <<TextBlock("AAPL is up."), TextBlock("See the table.")>>
    [] v = "tool" -> <<ToolBlock("generate_graph_data", "tu1", BarInput)>>
    [] v = "textTool" ->
         <<TextBlock("AAPL is up."), ToolBlock("generate_graph_data", "tu1", PieInput)>>
    [] v = "textBadTool" ->
         <<TextBlock("AAPL is up."), ToolBlock("generate_graph_data", "tu1", BadInput)>>
    [] OTHER ->
         <<ToolBlock("lookup", "tu1", BadInput), TextBlock("AAPL is up."),
           ToolBlock("generate_graph_data", "tu2", BarInput)>>

\* blocks.filter(c => c.type === t)
RECURSIVE BlocksOfType(_, _)
BlocksOfType(blocks, t) ==
  IF Len(blocks) = 0 THEN <<>>
  ELSE (IF blocks[1].type = t THEN <<blocks[1]>> ELSE <<>>) \o BlocksOfType(Tail(blocks), t)

\* allToolUseBlocks.find(c => c.name === "generate_graph_data"): its index or 0
RECURSIVE FirstNamed(_, _, _)
FirstNamed(blocks, n, i) ==
  IF i > Len(blocks) THEN 0
  ELSE IF blocks[i].name = n THEN i
  ELSE FirstNamed(blocks, n, i + 1)

\* A choice that takes the first tool invocation whatever its name.
ToolUseContentFirst(blocks) ==
  LET all == BlocksOfType(blocks, "tool_use")
  IN IF Len(all) > 0 THEN all[1] ELSE Null

\* toolUseContent
ToolUseContent(blocks) ==
  LET all == BlocksOfType(blocks, "tool_use")
      i == FirstNamed(all, "generate_graph_data", 1)
  IN IF i > 0 THEN all[i] ELSE IF Len(all) > 0 THEN all[1] ELSE Null

\* A content that is the first text block alone.
FullTextContentFirst(blocks) ==
  LET texts == BlocksOfType(blocks, "text")
  IN IF Len(texts) > 0 THEN texts[1].text ELSE ""

\* fullTextContent
FullTextContent(blocks) ==
  LET texts == BlocksOfType(blocks, "text")
  IN JoinWith([i \in 1..Len(texts) |-> texts[i].text], "\n\n")

Response(st, e, d, c, content, h, tu, cd) ==
  [status |-> st, error |-> e, details |-> d, code |-> c, content |-> content,
   hasToolUse |-> h, toolUse |-> tu, chartData |-> cd]

NoResponse == Response(0, "", "", 0, "", FALSE, Null, Null)

\* The 400 answers of input validation and file handling.
BadRequest(e) == Response(400, e, "", 0, "", FALSE, Null, Null)

\* An answer built without the try/catch around processToolResponse.
SuccessResponseUncaught(blocks) ==
  LET tu == ToolUseContent(blocks)
      p == IF tu = Null THEN Processed(FALSE, Null, Null) ELSE ProcessToolResponse(tu.input)
  IN IF p.threw
     THEN Response(500, "Invalid chart data structure", "", 0, "", FALSE, Null, Null)
     ELSE Response(200, "", "", 0, FullTextContent(blocks),
                   Len(BlocksOfType(blocks, "tool_use")) > 0,
                   IF tu = Null THEN Null
                   ELSE [type |-> tu.type, id |-> tu.id, name |-> tu.name, input |-> p.input],
                   p.chart)

\* An answer that leaves out the tool invocation whose handling threw.
SuccessResponseDropsFailedTool(blocks) ==
  LET tu == ToolUseContent(blocks)
      p == IF tu = Null THEN Processed(FALSE, Null, Null) ELSE ProcessToolResponse(tu.input)
  IN Response(200, "", "", 0, FullTextContent(blocks),
              Len(BlocksOfType(blocks, "tool_use")) > 0,
              IF tu = Null \/ p.threw THEN Null
              ELSE [type |-> tu.type, id |-> tu.id, name |-> tu.name, input |-> p.input],
              IF p.threw THEN Null ELSE p.chart)

\* The 200 answer built from the model's response.  Its fields are a string,
\* a boolean and values parsed from JSON, so JSON.stringify(responseData) does
\* not throw and the fallback body of its catch block is never the answer.
SuccessResponse(blocks) ==
  LET tu == ToolUseContent(blocks)
      p == IF tu = Null THEN Processed(FALSE, Null, Null) ELSE ProcessToolResponse(tu.input)
  IN Response(200, "", "", 0, FullTextContent(blocks),
              Len(BlocksOfType(blocks, "tool_use")) > 0,
              IF tu = Null THEN Null
              ELSE [type |-> tu.type, id |-> tu.id, name |-> tu.name, input |-> p.input],
              IF p.threw THEN Null ELSE p.chart)

\* error.message: it tells which call failed.
ErrorMessage(err) == err.src \o " call failed"

\* new Response(body, { status }): an undefined status is the default, 200.
ResponseStatus(st) == IF st = NoStatus THEN 200 ELSE st

\* The outer catch block: an Anthropic.APIError answers with its own status,
\* anything else with 500.
ErrorResponse(err) ==
  IF err.val = "APIError"
  THEN Response(ResponseStatus(err.status), "API Error", ErrorMessage(err), err.status,
                "", FALSE, Null, Null)
  ELSE Response(500, ErrorMessage(err), "", 0, "", FALSE, Null, Null)

----------------------------------------------------------------------------
(* The call sites of the executor and what their fn can do. *)

\* The bodies the search service answers a 2xx with: content with two
\* citations, content without the citations field, no choices, and a body
\* that is not JSON.
LiveValues == {"cited", "uncited", "noChoices", "notJson"}

\* The status codes the search service answers with when it fails: the
\* authentication error, another client error, the rate limit, a server error.
LiveStatuses == {401, 404, 429, 503}

SiteValues(s) ==
  CASE s = "portfolio" -> PortfolioValues
    [] s = "search" -> SearchValues
    [] s = "gen" -> GenValues
    [] s = "live" -> LiveValues
    [] OTHER -> TestValues

\* The errors fn throws. The portfolio fetch and the live-search call throw an
\* Error carrying response.status, or whatever fetch or response.json() throws
\* (no status); the SDK throws an APIError with the status of the answer, one
\* without a status when the connection fails, and other errors can reach the
\* executor as well.
SiteErrors(s, n) ==
  IF s = "gen"
  THEN {Failure(s, "APIError", st, n) : st \in Statuses \cup {NoStatus}}
         \cup {Failure(s, "Error", NoStatus, n)}
  ELSE IF s = "live"
  THEN {Failure(s, "Error", st, n) : st \in LiveStatuses \cup {NoStatus}}
  ELSE {Failure(s, "Error", st, n) : st \in Statuses \cup {NoStatus}}

\* What the n-th call of fn can do at call site s.
CallOutcomes(s, n) == {Success(s, v, n) : v \in SiteValues(s)} \cup SiteErrors(s, n)

Policy(m, i, d, l) == [maxRetries |-> m, initialDelay |-> i, maxDelay |-> d, hasList |-> l]

\* fetchCombinedCSVsByFirm: 3, 1000, 10000, [429, 500, 502, 503, 504]
PortfolioPolicy == Policy(3, 1000, 10000, TRUE)

\* STEP 1b: 2, 2000, 8000, [429, 500, 502, 503, 504]
SearchPolicy == Policy(2, 2000, 8000, TRUE)

\* anthropic.messages.create: 3, 2000, 15000, [429, 500, 502, 503, 504]
GenPolicy == Policy(3, 2000, 15000, TRUE)

\* The live-search route's call of the search service: 3, 1000, 10000, and
\* an executor that takes no list.
LivePolicy == Policy(3, 1000, 10000, FALSE)

----------------------------------------------------------------------------
(* retryWithBackoff *)

RECURSIVE Pow2(_)
Pow2(n) == IF n <= 0 THEN 1 ELSE 2 * Pow2(n - 1)

\* A slip of the range test: 400 and 401 are taken for retryable.
TerminalClientErrorAbove401(statusCode) ==
  statusCode # NoStatus /\ statusCode > 401 /\ statusCode < 500 /\ statusCode # 429

\* statusCode && statusCode >= 400 && statusCode < 500 && statusCode !== 429
TerminalClientError(statusCode) ==
  statusCode # NoStatus /\ statusCode >= 400 /\ statusCode < 500 /\ statusCode # 429

\* retryableErrors && statusCode && !retryableErrors.includes(statusCode)
\* (the live-search route's executor takes no list: hasList is FALSE there)
NotInRetryableList(pol, statusCode) ==
  pol.hasList /\ statusCode # NoStatus /\ statusCode \notin RetryableList

\* A slip of the last-attempt test: attempt === maxRetries.
LastAttemptOffByOne(pol, a) == a = pol.maxRetries

\* attempt === maxRetries - 1
LastAttempt(pol, a) == a = pol.maxRetries - 1

\* The delay without its cap.
BackoffDelayUncapped(pol, a, rnd) == pol.initialDelay * Pow2(a) + rnd

\* Math.min(initialDelay * Math.pow(2, attempt) + Math.random() * 1000, maxDelay)
BackoffDelay(pol, a, rnd) == Min(pol.initialDelay * Pow2(a) + rnd, pol.maxDelay)

\* A slip of the loop test: attempt <= maxRetries.
LoopContinuesOffByOne(pol, a) == a <= pol.maxRetries

\* A loop test on the wrong parameter: attempt < maxDelay.
LoopContinuesWrongBound(pol, a) == a < pol.maxDelay

\* attempt < maxRetries, the test of the for loop
LoopContinues(pol, a) == a < pol.maxRetries

\* The catch block rethrows the error instead of sleeping.
Rethrows(pol, a, statusCode) ==
  \/ TerminalClientError(statusCode)
  \/ NotInRetryableList(pol, statusCode)
  \/ LastAttempt(pol, a)

\* The error thrown once the loop has run out: lastError || new Error(...)
ExhaustedError(err) == IF err = NoError THEN GenericError ELSE err

\* One turn of the loop up to its next suspension: the loop test, the call of
\* fn, and on a failure the catch block up to the start of the sleep.  The
\* call does one of choices.
RetryTurn(choices) ==
  /\ pc = "call"
  /\ Len(outcomes) < MaxCalls
  /\ IF LoopContinues(policy, attempt)
     THEN \E o \in choices :
            /\ outcomes' = Append(outcomes, o)
            /\ IF o.ok
               THEN /\ pc' = "returned"
                    /\ result' = o
                    /\ UNCHANGED <<lastError, delay, jitter, sleeps>>
               ELSE /\ lastError' = o
                    /\ IF Rethrows(policy, attempt, o.status)
                       THEN /\ pc' = "thrown"
                            /\ result' = o
                            /\ UNCHANGED <<delay, jitter, sleeps>>
                       ELSE \E j \in Jitters :
                              /\ pc' = "sleep"
                              /\ delay' = BackoffDelay(policy, attempt, j)
                              /\ jitter' = j
                              /\ sleeps' = sleeps + 1
                              /\ UNCHANGED result
     ELSE /\ pc' = "thrown"
          /\ result' = ExhaustedError(lastError)
          /\ UNCHANGED <<outcomes, lastError, delay, jitter, sleeps>>
  /\ UNCHANGED <<site, policy, attempt>>
  /\ UNCHANGED routeVars

\* What the search service answered to a call: the status of the answer, 200
\* for a 2xx, and NoStatus when the call failed without an answer.
Answered(o) == IF o.ok THEN 200 ELSE o.status

\* A turn of the loop whose fn is called with the outcomes of its call site;
\* a call made to the search service is one more call it has received.
RetryCall ==
  /\ RetryTurn(CallOutcomes(site, Len(outcomes) + 1))
  /\ upstream' = IF site = "live" /\ Len(outcomes') > Len(outcomes)
                 THEN Append(upstream, Answered(outcomes'[Len(outcomes')]))
                 ELSE upstream
  /\ UNCHANGED <<peer, chat>>

\* The timer of the sleep fires and the loop goes to its next turn.
RetrySleep ==
  /\ pc = "sleep"
  /\ attempt' = attempt + 1
  /\ pc' = "call"
  /\ delay' = 0
  /\ jitter' = 0
  /\ UNCHANGED <<site, policy, outcomes, sleeps, lastError, result>>
  /\ UNCHANGED routeVars
  /\ UNCHANGED <<peer, upstream, chat>>

\* Entering retryWithBackoff at call site s with policy pol.
StartRetry(s, pol) ==
  /\ site' = s
  /\ policy' = pol
  /\ attempt' = 0
  /\ pc' = "call"
  /\ outcomes' = <<>>
  /\ delay' = 0
  /\ jitter' = 0
  /\ sleeps' = 0
  /\ lastError' = NoError
  /\ result' = NoResult

\* retryWithBackoff has returned or thrown and its caller has taken the result.
StopRetry ==
  /\ site' = "none"
  /\ policy' = Policy(0, 0, 0, FALSE)
  /\ attempt' = 0
  /\ pc' = "off"
  /\ outcomes' = <<>>
  /\ delay' = 0
  /\ jitter' = 0
  /\ sleeps' = 0
  /\ lastError' = NoError
  /\ result' = NoResult

\* The executor at call site s has returned or thrown.
Finished(s) == site = s /\ pc \in {"returned", "thrown"}

\* No call site has been reached.
NoStages == [portfolio |-> "skipped", search |-> "skipped", gen |-> "skipped"]

\* The policies the executor is run alone with: the delays of the call sites,
\* a maxDelay small enough to cap the first sleep, with and without the list.
TestPolicies ==
  {Policy(m, i, d, l) : m \in 0..MaxRetriesBound, i \in {1000, 2000},
                        d \in {1500, 10000}, l \in BOOLEAN}

RetryInit ==
  /\ site = "test"
  /\ policy \in TestPolicies
  /\ attempt = 0
  /\ pc = "call"
  /\ outcomes = <<>>
  /\ delay = 0
  /\ jitter = 0
  /\ sleeps = 0
  /\ lastError = NoError
  /\ result = NoResult
  /\ rpc = "idle"
  /\ req = [messages |-> [kind |-> "absent", turns |-> <<>>], model |-> "",
            fileData |-> NoFile, includeLiveData |-> FALSE,
            icfMapping |-> Icf(FALSE, "", "", "", "")]
  /\ anthropicMessages = <<>>
  /\ stockData = NoStock
  /\ perplexityData = NoPerplexity
  /\ extractedUserQuery = ""
  /\ stages = NoStages
  /\ genResult = NoResult
  /\ response = NoResponse
  /\ responses = 0
  /\ peer = NoPeer
  /\ upstream = <<>>
  /\ chat = NoChat

RetryNext == RetryCall \/ RetrySleep

RetrySpec == RetryInit /\ [][RetryNext]_vars

----------------------------------------------------------------------------
(* POST, from one suspension to the next. *)

\* How the executor under way has ended.
Ending == IF pc = "returned" THEN "returned" ELSE "thrown"

\* return new Response(...)
Respond(resp, gen, st) ==
  /\ rpc' = "done"
  /\ response' = resp
  /\ responses' = responses + 1
  /\ genResult' = gen
  /\ stages' = st
  /\ StopRetry
  /\ UNCHANGED <<req, peer, upstream, chat, anthropicMessages, stockData, perplexityData, extractedUserQuery>>

\* The call of the model with the conversation as STEP 1 left it.
ToGenBeforeFusion(msgs, query, sd, pd, st) ==
  /\ rpc' = "gen"
  /\ anthropicMessages' = msgs
  /\ extractedUserQuery' = query
  /\ stockData' = sd
  /\ perplexityData' = pd
  /\ stages' = [st EXCEPT !.gen = "entered"]
  /\ StartRetry("gen", GenPolicy)
  /\ UNCHANGED <<req, peer, upstream, chat, genResult, response, responses>>

\* STEP 2 and the call of the model, up to its first suspension.
ToGen(msgs, query, sd, pd, st) ==
  /\ rpc' = "gen"
  /\ anthropicMessages' = Fuse(req, msgs, query, sd, pd)
  /\ extractedUserQuery' = query
  /\ stockData' = sd
  /\ perplexityData' = pd
  /\ stages' = [st EXCEPT !.gen = "entered"]
  /\ StartRetry("gen", GenPolicy)
  /\ UNCHANGED <<req, peer, upstream, chat, genResult, response, responses>>

\* STEP 1b up to its first suspension, or on to STEP 2 when it makes no call.
ToStep1b(msgs, sd, st) ==
  IF CallsSearch(req)
  THEN /\ rpc' = "step1b"
       /\ anthropicMessages' = msgs
       /\ extractedUserQuery' = ExtractQuery(req)
       /\ stockData' = sd
       /\ stages' = [st EXCEPT !.search = "entered"]
       /\ StartRetry("search", SearchPolicy)
       /\ UNCHANGED <<req, peer, upstream, chat, perplexityData, genResult, response, responses>>
  ELSE ToGen(msgs, ExtractQuery(req), sd, NoPerplexity, st)

\* The request is read, validated and converted, the file is handled, and
\* POST runs up to its first suspension.
Receive ==
  /\ rpc = "start"
  /\ LET invalid == ValidationError(req)
         file == HandleFile(req, ConvertMessages(req.messages.turns))
     IN IF invalid # "" THEN Respond(BadRequest(invalid), NoResult, stages)
        ELSE IF file.error # "" THEN Respond(BadRequest(file.error), NoResult, stages)
        ELSE IF FetchesPortfolio(req)
          THEN /\ rpc' = "step1a"
               /\ anthropicMessages' = file.messages
               /\ stages' = [stages EXCEPT !.portfolio = "entered"]
               /\ StartRetry("portfolio", PortfolioPolicy)
               /\ UNCHANGED <<req, peer, upstream, chat, stockData, perplexityData, extractedUserQuery,
                              genResult, response, responses>>
          ELSE ToStep1b(file.messages, NoStock, stages)

\* STEP 1a without its try/catch: the error of the portfolio fetch reaches the
\* outer catch block.
PortfolioDoneUncaught ==
  /\ rpc = "step1a"
  /\ Finished("portfolio")
  /\ IF pc = "returned"
     THEN ToStep1b(anthropicMessages, StockOf(result.val),
                   [stages EXCEPT !.portfolio = Ending])
     ELSE Respond(ErrorResponse(result), NoResult, [stages EXCEPT !.portfolio = Ending])

\* fetchCombinedCSVsByFirm has returned or thrown: STEP 1a ends (its catch
\* block leaves stockData null) and POST runs on.
PortfolioDone ==
  /\ rpc = "step1a"
  /\ Finished("portfolio")
  /\ ToStep1b(anthropicMessages, IF pc = "returned" THEN StockOf(result.val) ELSE NoStock,
              [stages EXCEPT !.portfolio = Ending])

\* STEP 1b whose catch block loses the portfolio data as well.
SearchDoneDropsStock ==
  /\ rpc = "step1b"
  /\ Finished("search")
  /\ ToGen(anthropicMessages, extractedUserQuery,
           IF pc = "returned" THEN stockData ELSE NoStock,
           IF pc = "returned" THEN PerplexityOf(result.val) ELSE NoPerplexity,
           [stages EXCEPT !.search = Ending])

\* The live-search call has returned or thrown: STEP 1b ends (its catch block
\* leaves perplexityData null) and POST runs on.
SearchDone ==
  /\ rpc = "step1b"
  /\ Finished("search")
  /\ ToGen(anthropicMessages, extractedUserQuery, stockData,
           IF pc = "returned" THEN PerplexityOf(result.val) ELSE NoPerplexity,
           [stages EXCEPT !.search = Ending])

\* The Response of POST to each answer of the model.
SuccessResponses == [g \in GenValues |-> SuccessResponse(GenResponse(g))]

\* The call of the model has returned or thrown: POST answers.
GenDone ==
  /\ rpc = "gen"
  /\ Finished("gen")
  /\ IF pc = "returned"
     THEN Respond(SuccessResponses[result.val], result,
                  [stages EXCEPT !.gen = Ending])
     ELSE Respond(ErrorResponse(result), result, [stages EXCEPT !.gen = Ending])

Init ==
  /\ rpc = "start"
  /\ req \in Requests
  /\ anthropicMessages = <<>>
  /\ stockData = NoStock
  /\ perplexityData = NoPerplexity
  /\ extractedUserQuery = ""
  /\ stages = NoStages
  /\ genResult = NoResult
  /\ response = NoResponse
  /\ responses = 0
  /\ peer = NoPeer
  /\ upstream = <<>>
  /\ chat = NoChat
  /\ site = "none"
  /\ policy = Policy(0, 0, 0, FALSE)
  /\ attempt = 0
  /\ pc = "off"
  /\ outcomes = <<>>
  /\ delay = 0
  /\ jitter = 0
  /\ sleeps = 0
  /\ lastError = NoError
  /\ result = NoResult

Next == Receive \/ PortfolioDone \/ SearchDone \/ GenDone \/ RetryCall \/ RetrySleep

Spec == Init /\ [][Next]_vars

\* Both the route and the executor alone, with every step that can be taken
\* eventually taken: a pending promise settles and a timer fires.
\* A run is a request to POST or a run of the executor alone.
FairInit == Init \/ RetryInit

FairSpec == FairInit /\ [][Next]_vars /\ WF_vars(Next)

----------------------------------------------------------------------------
(* Two requests in flight.  Every variable of POST and of retryWithBackoff is
   a local of one call, so each request has its own; one request runs at a
   time, up to its next await, and the other waits with its locals in peer. *)

\* The locals of the request that runs.
Locals ==
  [site |-> site, policy |-> policy, attempt |-> attempt, pc |-> pc,
   outcomes |-> outcomes, delay |-> delay, jitter |-> jitter, sleeps |-> sleeps,
   lastError |-> lastError, result |-> result, rpc |-> rpc, req |-> req,
   anthropicMessages |-> anthropicMessages, stockData |-> stockData,
   perplexityData |-> perplexityData, extractedUserQuery |-> extractedUserQuery,
   stages |-> stages, genResult |-> genResult, response |-> response,
   responses |-> responses]

\* The locals of a request that has arrived and not yet run.
StartLocals(r) ==
  [site |-> "none", policy |-> Policy(0, 0, 0, FALSE), attempt |-> 0, pc |-> "off",
   outcomes |-> <<>>, delay |-> 0, jitter |-> 0, sleeps |-> 0,
   lastError |-> NoError, result |-> NoResult, rpc |-> "start", req |-> r,
   anthropicMessages |-> <<>>, stockData |-> NoStock,
   perplexityData |-> NoPerplexity, extractedUserQuery |-> "",
   stages |-> NoStages, genResult |-> NoResult, response |-> NoResponse,
   responses |-> 0]

\* The request that runs has the locals L.
Running(L) ==
  /\ site = L.site
  /\ policy = L.policy
  /\ attempt = L.attempt
  /\ pc = L.pc
  /\ outcomes = L.outcomes
  /\ delay = L.delay
  /\ jitter = L.jitter
  /\ sleeps = L.sleeps
  /\ lastError = L.lastError
  /\ result = L.result
  /\ rpc = L.rpc
  /\ req = L.req
  /\ anthropicMessages = L.anthropicMessages
  /\ stockData = L.stockData
  /\ perplexityData = L.perplexityData
  /\ extractedUserQuery = L.extractedUserQuery
  /\ stages = L.stages
  /\ genResult = L.genResult
  /\ response = L.response
  /\ responses = L.responses

\* The request with locals L runs on.
Resume(L) ==
  /\ site' = L.site
  /\ policy' = L.policy
  /\ attempt' = L.attempt
  /\ pc' = L.pc
  /\ outcomes' = L.outcomes
  /\ delay' = L.delay
  /\ jitter' = L.jitter
  /\ sleeps' = L.sleeps
  /\ lastError' = L.lastError
  /\ result' = L.result
  /\ rpc' = L.rpc
  /\ req' = L.req
  /\ anthropicMessages' = L.anthropicMessages
  /\ stockData' = L.stockData
  /\ perplexityData' = L.perplexityData
  /\ extractedUserQuery' = L.extractedUserQuery
  /\ stages' = L.stages
  /\ genResult' = L.genResult
  /\ response' = L.response
  /\ responses' = L.responses

\* An executor whose loop variable is one for all requests: the request that
\* runs on finds the attempt of the other.
SwitchSharingAttempt ==
  /\ peer # NoPeer
  /\ peer' = Locals
  /\ Resume([peer EXCEPT !.attempt = attempt])
  /\ UNCHANGED <<upstream, chat>>

\* The request that runs stands at an await and the other one runs on.
Switch ==
  /\ peer # NoPeer
  /\ peer' = Locals
  /\ Resume(peer)
  /\ UNCHANGED <<upstream, chat>>

\* The requests in flight.  FirstRequest has includeLiveData and no
\* icfMapping: it calls the live-search route and then the model, with the
\* fused prompt.  FullRequest has a complete icfMapping as well and fetches
\* the portfolio first.  SecondRequests have another conversation and no
\* includeLiveData, with and without a model.
FullRequest ==
  [messages |-> [kind |-> "array", turns |-> <<Turn("user", Str(Query))>>],
   model |-> "claude", fileData |-> NoFile, includeLiveData |-> TRUE,
   icfMapping |-> Icf(TRUE, "Acme", "c1", "b1", "Growth")]

FirstRequest ==
  [messages |-> [kind |-> "array", turns |-> <<Turn("user", Str(Query))>>],
   model |-> "claude", fileData |-> NoFile, includeLiveData |-> TRUE,
   icfMapping |-> Icf(FALSE, "", "", "", "")]

SecondRequests ==
  {[messages |-> [kind |-> "array",
                  turns |-> <<Turn("user", Str("Hello")), Turn("assistant", Str("Hi.")),
                              Turn("user", Str("Compare MSFT."))>>],
    model |-> m, fileData |-> NoFile, includeLiveData |-> FALSE,
    icfMapping |-> Icf(FALSE, "", "", "", "")] : m \in {"", "claude"}}

\* The pairs in flight: FirstRequest with each of SecondRequests, and
\* FullRequest with the one that is answered 400.
PairsInFlight ==
  {<<FirstRequest, r>> : r \in SecondRequests}
    \cup {<<FullRequest, r>> : r \in {q \in SecondRequests : q.model = ""}}

PairInit ==
  \E p \in PairsInFlight :
    /\ Running(StartLocals(p[1]))
    /\ peer = StartLocals(p[2])
    /\ upstream = <<>>
    /\ chat = NoChat

PairNext ==
  Receive \/ PortfolioDone \/ SearchDone \/ GenDone \/ RetryCall \/ RetrySleep \/ Switch

PairSpec == PairInit /\ [][PairNext]_vars

----------------------------------------------------------------------------
(* STEP 2 run alone, on any conversation and any data of STEP 1. *)

\* The last turns STEP 2 is run on: those of a request, those the file
\* handling builds (a file's text part, then the text part of the message),
\* and two images without a text.
FuseLastTurns ==
  LastTurns \cup
    {Turn("user", Arr(<<TextPart(Str("File contents of notes.txt:\n\nhello")),
                        TextPart(Str(Query))>>)),
     Turn("user", Arr(<<ImagePart("image/png", "iVBORw0="),
                        ImagePart("image/jpeg", "/9j/4AA=")>>))}

FuseConversations == {PriorTurns(n) \o <<t>> : n \in 0..MaxPrior, t \in FuseLastTurns}

FuseInit ==
  /\ rpc = "fuse"
  /\ \E c \in FuseConversations, i \in IcfValues \cup {Icf(TRUE, "Acme", "c1", "b1", "")} :
       /\ req = [messages |-> [kind |-> "array", turns |-> c], model |-> "claude",
                 fileData |-> NoFile, includeLiveData |-> TRUE, icfMapping |-> i]
       /\ anthropicMessages = ConvertMessages(c)
  /\ extractedUserQuery \in {"", " ", Query}
  /\ stockData \in {NoStock} \cup {StockOf(v) : v \in PortfolioValues}
  /\ perplexityData \in {NoPerplexity} \cup {PerplexityOf(v) : v \in SearchValues}
  /\ site = "none"
  /\ policy = Policy(0, 0, 0, FALSE)
  /\ attempt = 0
  /\ pc = "off"
  /\ outcomes = <<>>
  /\ delay = 0
  /\ jitter = 0
  /\ sleeps = 0
  /\ lastError = NoError
  /\ result = NoResult
  /\ stages = NoStages
  /\ genResult = NoResult
  /\ response = NoResponse
  /\ responses = 0
  /\ peer = NoPeer
  /\ upstream = <<>>
  /\ chat = NoChat

\* STEP 2
FuseStep ==
  /\ rpc = "fuse"
  /\ rpc' = "fused"
  /\ anthropicMessages'
       = Fuse(req, anthropicMessages, extractedUserQuery, stockData, perplexityData)
  /\ UNCHANGED <<req, peer, upstream, chat, stockData, perplexityData, extractedUserQuery, stages, genResult,
                 response, responses>>
  /\ UNCHANGED retryVars

FuseSpec == FuseInit /\ [][FuseStep]_vars

----------------------------------------------------------------------------
(* STEP 2 run alone, on portfolio data of any length. *)

\* s written 2^k times.
RECURSIVE Doubled(_, _)
Doubled(s, k) == IF k = 0 THEN s ELSE Doubled(s \o s, k - 1)

\* The portfolio service answers with a JSON string of n characters:
\* stockData is that string and String(stockData) is what is cut.
TextBlob(n) ==
  [present |-> TRUE, isObject |-> FALSE, json |-> SubSeq(Doubled("0123456789", 10), 1, n)]

\* The lengths of the portfolio data: short, at the limit and on both sides
\* of it, and 10,000 characters.
BlobLengths == {1, 2999, 3000, 3001, 10000}

TruncateInit ==
  /\ rpc = "fuse"
  /\ \E c \in FuseConversations,
        i \in {Icf(TRUE, "Acme", "c1", "b1", "Growth"), Icf(TRUE, "Acme", "c1", "b1", "")} :
       /\ req = [messages |-> [kind |-> "array", turns |-> c], model |-> "claude",
                 fileData |-> NoFile, includeLiveData |-> TRUE, icfMapping |-> i]
       /\ anthropicMessages = ConvertMessages(c)
  /\ extractedUserQuery \in {"", Query}
  /\ stockData \in {StockOf("holdings")} \cup {TextBlob(n) : n \in BlobLengths}
  /\ perplexityData \in {NoPerplexity, PerplexityOf("cited")}
  /\ site = "none"
  /\ policy = Policy(0, 0, 0, FALSE)
  /\ attempt = 0
  /\ pc = "off"
  /\ outcomes = <<>>
  /\ delay = 0
  /\ jitter = 0
  /\ sleeps = 0
  /\ lastError = NoError
  /\ result = NoResult
  /\ stages = NoStages
  /\ genResult = NoResult
  /\ response = NoResponse
  /\ responses = 0
  /\ peer = NoPeer
  /\ upstream = <<>>
  /\ chat = NoChat

TruncateSpec == TruncateInit /\ [][FuseStep]_vars

----------------------------------------------------------------------------
(* The handling of the model's response run alone, on any tool input. *)

\* Rows that name their segments and values themselves.
SegmentRows ==
  <<<<Field("category", Text("Tech")), Field("value", Num(7))>>,
    <<Field("name", Text("Energy")), Field("value", Num(0))>>>>

\* Rows whose fields hold 0, the empty string, false and null.
FalsyRows ==
  <<<<Field("region", Num(0)), Field("segment", Text("Other")),
      Field("sales", Num(0)), Field("value", Num(9))>>,
    <<Field("region", Text("")), Field("name", Text("Misc")),
      Field("sales", Bool(FALSE)), Field("value", Num(9))>>,
    <<Field("region", Bool(FALSE)), Field("category", Text("Rest")),
      Field("sales", NullValue), Field("value", Num(9))>>,
    <<Field("region", Text("US")), Field("sales", Text(""))>>>>

\* The data of a tool input: arrays; arrays JSON encoded once, twice and
\* three times; a string that is not JSON; a JSON string holding one that is
\* not; absent; an object, native and JSON encoded.
ToolData ==
  {DArray(SalesRows), DArray(SegmentRows), DArray(FalsyRows), DArray(<<>>),
   Stringify(DArray(SalesRows)), Stringify(DArray(<<>>)),
   Stringify(Stringify(DArray(SalesRows))), Stringify(Stringify(DArray(FalsyRows))),
   Stringify(Stringify(Stringify(DArray(SalesRows)))),
   DString(<<>>), Stringify(DString(<<>>)),
   DMissing, DObject, Stringify(DObject)}

\* A chartConfig whose keys are years, the later year declared first, with a
\* color and a stacked flag of the model's.
YearSeries ==
  ChartConfig(TRUE, <<[Series("2023", "FY 2023") EXCEPT !.color = "red"],
                      [Series("2022", "FY 2022") EXCEPT !.stacked = "true"]>>)

ToolInputs ==
  {ToolInput(ct, cfg, d, cc) :
     ct \in {"", "bar", "pie"},
     cfg \in {Config(TRUE, "region"), Config(TRUE, ""), Config(FALSE, "")},
     d \in ToolData,
     cc \in {ChartConfig(FALSE, <<>>), ChartConfig(TRUE, <<>>), SalesSeries,
             ChartConfig(TRUE, <<Series("profit", "Profit"), Series("sales", "Sales")>>),
             YearSeries}}

\* The answers of the model the handling is run on: a tool invocation, alone
\* and after a text.
ToolResponses ==
  {<<ToolBlock("generate_graph_data", "tu1", in)>> : in \in ToolInputs}
    \cup {<<TextBlock("AAPL is up."), ToolBlock("generate_graph_data", "tu1", in)>> :
            in \in ToolInputs}

NormalizeInit ==
  /\ rpc = "normalize"
  /\ genResult \in {Success("gen", blocks, 1) : blocks \in ToolResponses}
  /\ response = NoResponse
  /\ responses = 0
  /\ peer = NoPeer
  /\ upstream = <<>>
  /\ chat = NoChat
  /\ req = [messages |-> [kind |-> "array", turns |-> <<Turn("user", Str(Query))>>],
            model |-> "claude", fileData |-> NoFile, includeLiveData |-> FALSE,
            icfMapping |-> Icf(FALSE, "", "", "", "")]
  /\ anthropicMessages = <<Turn("user", Str(Query))>>
  /\ stockData = NoStock
  /\ perplexityData = NoPerplexity
  /\ extractedUserQuery = ""
  /\ stages = [NoStages EXCEPT !.gen = "returned"]
  /\ site = "none"
  /\ policy = Policy(0, 0, 0, FALSE)
  /\ attempt = 0
  /\ pc = "off"
  /\ outcomes = <<>>
  /\ delay = 0
  /\ jitter = 0
  /\ sleeps = 0
  /\ lastError = NoError
  /\ result = NoResult

\* POST from the model's response to its Response.
NormalizeStep ==
  /\ rpc = "normalize"
  /\ rpc' = "normalized"
  /\ response' = SuccessResponse(genResult.val)
  /\ responses' = responses + 1
  /\ UNCHANGED <<req, peer, upstream, chat, anthropicMessages, stockData, perplexityData, extractedUserQuery,
                 stages, genResult>>
  /\ UNCHANGED retryVars

NormalizeSpec == NormalizeInit /\ [][NormalizeStep]_vars

\* The handling run once more, on a response of the model whose tool input is
\* the payload the handling has just returned.
NormalizeAgain ==
  /\ rpc = "normalized"
  /\ response.chartData # Null
  /\ rpc' = "renormalized"
  /\ genResult'
       = Success("gen", <<ToolBlock("generate_graph_data", "tu2", response.chartData)>>, 2)
  /\ response' = SuccessResponse(genResult'.val)
  /\ responses' = responses + 1
  /\ UNCHANGED <<req, peer, upstream, chat, anthropicMessages, stockData, perplexityData, extractedUserQuery,
                 stages>>
  /\ UNCHANGED retryVars

RenormalizeNext == NormalizeStep \/ NormalizeAgain

RenormalizeSpec == NormalizeInit /\ [][RenormalizeNext]_vars

----------------------------------------------------------------------------
(* The handling of the model's response run alone, on responses of several
   blocks. *)

\* A tool input of a line chart.
LineInput == ToolInput("line", Config(TRUE, "region"), DArray(SalesRows), SalesSeries)

\* The blocks of a response: texts, one of them empty; invocations of other
\* tools, one with an input that cannot be normalized; and invocations of
\* generate_graph_data.
SelectBlocks ==
  {TextBlock("AAPL is up."), TextBlock("See the table."), TextBlock(""),
   ToolBlock("lookup", "tuA", BadInput), ToolBlock("get_quote", "tuB", LineInput),
   ToolBlock("generate_graph_data", "tuC", BarInput),
   ToolBlock("generate_graph_data", "tuD", PieInput)}

\* response.content: from no block to MaxBlocks blocks.
SelectResponses == UNION {[1..n -> SelectBlocks] : n \in 0..MaxBlocks}

SelectInit ==
  /\ rpc = "normalize"
  /\ genResult \in {Success("gen", blocks, 1) : blocks \in SelectResponses}
  /\ response = NoResponse
  /\ responses = 0
  /\ peer = NoPeer
  /\ upstream = <<>>
  /\ chat = NoChat
  /\ req = [messages |-> [kind |-> "array", turns |-> <<Turn("user", Str(Query))>>],
            model |-> "claude", fileData |-> NoFile, includeLiveData |-> FALSE,
            icfMapping |-> Icf(FALSE, "", "", "", "")]
  /\ anthropicMessages = <<Turn("user", Str(Query))>>
  /\ stockData = NoStock
  /\ perplexityData = NoPerplexity
  /\ extractedUserQuery = ""
  /\ stages = [NoStages EXCEPT !.gen = "returned"]
  /\ site = "none"
  /\ policy = Policy(0, 0, 0, FALSE)
  /\ attempt = 0
  /\ pc = "off"
  /\ outcomes = <<>>
  /\ delay = 0
  /\ jitter = 0
  /\ sleeps = 0
  /\ lastError = NoError
  /\ result = NoResult

SelectSpec == SelectInit /\ [][NormalizeStep]_vars

----------------------------------------------------------------------------
(* The live-search route: its POST, from one suspension to the next. *)

\* The query of the request body: absent, a string, or a number.
QAbsent == [kind |-> "absent", text |-> ""]

QString(t) == [kind |-> "string", text |-> t]

QNumber == [kind |-> "number", text |-> "42"]

LiveQueries ==
  {QAbsent, QString(""), QString(" "), QString("  \n"), QString(Query),
   QString(" " \o Query), QNumber}

\* The requests of the live-search route: a body that is not JSON, and the
\* bodies with these queries, with and without PERPLEXITY_API_KEY set.
LiveRequests ==
  {[json |-> FALSE, query |-> QAbsent, apiKey |-> TRUE]}
    \cup {[json |-> TRUE, query |-> q, apiKey |-> k] : q \in LiveQueries, k \in BOOLEAN}

LiveResponse(st, ok, e, c, cit) ==
  [status |-> st, success |-> ok, error |-> e, content |-> c, citations |-> cit]

\* A validation that does not trim the query.
QueryRejectedUntrimmed(q) ==
  q.kind = "absent" \/ (q.kind = "string" /\ q.text = "")

\* !query || !query.trim(), for the queries on which it does not throw
QueryRejected(q) ==
  q.kind = "absent" \/ (q.kind = "string" /\ Trim(q.text) = "")

\* A number in decimal, three digits.
Decimal(n) == Digit(n \div 100) \o Digit((n \div 10) % 10) \o Digit(n % 10)

\* fetchError?.status || 500
StatusOr500(st) == IF st = NoStatus THEN 500 ELSE st

\* A mapping that answers a rate limit like any other failure, with 500.
LiveErrorResponseFlat(err) ==
  IF err.status = 401
  THEN LiveResponse(401, FALSE, "Invalid API key. Please check your PERPLEXITY_API_KEY.",
                    "", <<>>)
  ELSE LiveResponse(500, FALSE, "API error: 500 Perplexity API error", "", <<>>)

\* The catch block around the call of the search service.
LiveErrorResponse(err) ==
  IF err.status = 429
  THEN LiveResponse(429, FALSE, "Rate limit exceeded. Please try again later.", "", <<>>)
  ELSE IF err.status = 401
  THEN LiveResponse(401, FALSE, "Invalid API key. Please check your PERPLEXITY_API_KEY.",
                    "", <<>>)
  ELSE LiveResponse(StatusOr500(err.status), FALSE,
                    "API error: " \o Decimal(StatusOr500(err.status))
                      \o " Perplexity API error", "", <<>>)

\* The answer to a 2xx of the search service: response.json(), then
\* data.choices?.[0]?.message?.content || "" and data.citations || [].
LiveSuccessResponse(v) ==
  IF v = "notJson"
  THEN LiveResponse(500, FALSE, "Invalid JSON response from Perplexity API", "", <<>>)
  ELSE LiveResponse(200, TRUE, "",
                    IF v = "noChoices" THEN "" ELSE "AAPL trades at 227.",
                    IF v = "cited" THEN <<"https://a.example", "https://b.example">>
                    ELSE <<>>)

\* return new Response(...) of the live-search route
LiveRespond(resp, res) ==
  /\ rpc' = "liveDone"
  /\ response' = resp
  /\ responses' = responses + 1
  /\ genResult' = res
  /\ StopRetry
  /\ UNCHANGED <<req, peer, upstream, chat, anthropicMessages, stockData, perplexityData, extractedUserQuery,
                 stages>>

\* The body is read, the query validated and the key looked up, and POST runs
\* up to its first suspension in the executor.
LiveReceive ==
  /\ rpc = "live"
  /\ IF ~req.json
     THEN LiveRespond(LiveResponse(400, FALSE, "Invalid JSON in request body", "", <<>>),
                      NoResult)
     ELSE IF QueryRejected(req.query)
     THEN LiveRespond(LiveResponse(400, FALSE, "Query cannot be empty", "", <<>>), NoResult)
     ELSE IF req.query.kind # "string"
     THEN LiveRespond(LiveResponse(500, FALSE, "query.trim is not a function", "", <<>>),
                      NoResult)
     ELSE IF ~req.apiKey
     THEN LiveRespond(LiveResponse(500, FALSE,
                        "PERPLEXITY_API_KEY not configured. Please add it to your .env.local file.",
                        "", <<>>), NoResult)
     ELSE /\ rpc' = "liveCall"
          /\ StartRetry("live", LivePolicy)
          /\ UNCHANGED <<req, peer, upstream, chat, anthropicMessages, stockData, perplexityData,
                         extractedUserQuery, stages, genResult, response, responses>>

\* The executor has returned or thrown: POST answers.
LiveDone ==
  /\ rpc = "liveCall"
  /\ Finished("live")
  /\ IF pc = "returned"
     THEN LiveRespond(LiveSuccessResponse(result.val), result)
     ELSE LiveRespond(LiveErrorResponse(result), result)

LiveInit ==
  /\ rpc = "live"
  /\ req \in LiveRequests
  /\ anthropicMessages = <<>>
  /\ stockData = NoStock
  /\ perplexityData = NoPerplexity
  /\ extractedUserQuery = ""
  /\ stages = NoStages
  /\ genResult = NoResult
  /\ response = NoResponse
  /\ responses = 0
  /\ peer = NoPeer
  /\ upstream = <<>>
  /\ chat = NoChat
  /\ site = "none"
  /\ policy = Policy(0, 0, 0, FALSE)
  /\ attempt = 0
  /\ pc = "off"
  /\ outcomes = <<>>
  /\ delay = 0
  /\ jitter = 0
  /\ sleeps = 0
  /\ lastError = NoError
  /\ result = NoResult

LiveNext == LiveReceive \/ LiveDone \/ RetryCall \/ RetrySleep

LiveSpec == LiveInit /\ [][LiveNext]_vars

\* Both routes: a run is a request to the finance route or a request to the
\* live-search route.
RoutesInit == Init \/ LiveInit

RoutesNext ==
  Receive \/ PortfolioDone \/ SearchDone \/ GenDone \/ LiveReceive \/ LiveDone
    \/ RetryCall \/ RetrySleep

RoutesSpec == RoutesInit /\ [][RoutesNext]_vars

----------------------------------------------------------------------------
(* The two routes together: the fn of STEP 1b is a request to the live-search
   route of the same server.  While that request is served, the finance
   request waits at its fetch with its locals in peer. *)

\* The fn of STEP 1b that hides the status of the answer from the executor.
SearchOutcomeNoStatus(resp, n) ==
  IF resp.status = 200
  THEN Success("search", "uncited", n)
  ELSE Failure("search", "Error", NoStatus, n)

\* What the fn of STEP 1b does with the answer of the live-search route: it
\* throws an Error carrying the status when the answer is not ok, and returns
\* the body otherwise.
SearchOutcome(resp, n) ==
  IF resp.status = 200
  THEN Success("search",
               IF resp.content = "" THEN "empty"
               ELSE IF Len(resp.citations) > 0 THEN "cited" ELSE "uncited", n)
  ELSE Failure("search", "Error", resp.status, n)

\* The locals of a request to the live-search route that has arrived.
LiveLocals(q, k) ==
  [StartLocals([json |-> TRUE, query |-> QString(q), apiKey |-> k]) EXCEPT !.rpc = "live"]

\* fn of STEP 1b is called: its fetch fails without an answer, or the
\* live-search route receives the request, with the query of the finance
\* request, and PERPLEXITY_API_KEY set or not.
SearchFetch ==
  /\ rpc = "step1b"
  /\ site = "search"
  /\ pc = "call"
  /\ peer = NoPeer
  /\ \/ /\ RetryTurn({Failure("search", "Error", NoStatus, Len(outcomes) + 1)})
        /\ UNCHANGED <<peer, upstream, chat>>
     \/ \E k \in BOOLEAN :
          /\ LoopContinues(policy, attempt)
          /\ Len(outcomes) < MaxCalls
          /\ peer' = Locals
          /\ Resume(LiveLocals(extractedUserQuery, k))
          /\ UNCHANGED <<upstream, chat>>

\* The live-search route has answered: the fetch of the finance request
\* resolves, and the finance request runs on.
SearchAnswered ==
  /\ rpc = "liveDone"
  /\ peer # NoPeer
  /\ peer' = Locals
  /\ Resume(peer)
  /\ UNCHANGED <<upstream, chat>>

\* fn of STEP 1b takes the answer, and the turn of the outer loop ends.
SearchSettle ==
  /\ rpc = "step1b"
  /\ site = "search"
  /\ peer # NoPeer
  /\ RetryTurn({SearchOutcome(peer.response, Len(outcomes) + 1)})
  /\ peer' = NoPeer
  /\ UNCHANGED <<upstream, chat>>

\* A turn of the inner loop: the search service is called.
LiveCall == site = "live" /\ RetryCall

LayeredInit ==
  /\ Running(StartLocals(FirstRequest))
  /\ peer = NoPeer
  /\ upstream = <<>>
  /\ chat = NoChat

\* The finance request up to the call of the model, which stays pending.
LayeredNext ==
  Receive \/ SearchFetch \/ LiveReceive \/ LiveCall \/ LiveDone \/ SearchAnswered
    \/ SearchSettle \/ SearchDone \/ RetrySleep

LayeredSpec == LayeredInit /\ [][LayeredNext]_vars

----------------------------------------------------------------------------
(* The chat page: handleSubmit and handleInitialize from the answer of
   /api/finance on. *)

Message(r, c, h, cd) == [role |-> r, content |-> c, hasToolUse |-> h, chartData |-> cd]

\* The message that stands for the answer while the request is under way.
Thinking == Message("assistant", "thinking", FALSE, Null)

\* The assistant message built from the body of a 2xx answer:
\* hasToolUse: data.hasToolUse || !!data.toolUse,
\* chartData: data.chartData || data.toolUse?.input || null
AssistantMessage(data) ==
  Message("assistant", data.content, data.hasToolUse \/ data.toolUse # Null,
          IF data.chartData # Null THEN data.chartData
          ELSE IF data.toolUse # Null THEN data.toolUse.input
          ELSE Null)

\* The assistant message of the catch block of each handler.
FailedMessage(h) ==
  Message("assistant",
          IF h = "submit" THEN "I encountered an error. Please try again."
          ELSE "Initialization failed. Please try again.", FALSE, Null)

\* response.ok
Ok(resp) == resp.status >= 200 /\ resp.status <= 299

\* The fetch of handler h has resolved: the last message, the thinking one,
\* is replaced, by the catch block when the answer is not ok, and the finally
\* block resets isLoading.
Answer(h) ==
  /\ chat.handler = h
  /\ chat.isLoading
  /\ rpc \in {"normalized", "done"}
  /\ chat' = [chat EXCEPT
               !.messages[Len(chat.messages)] =
                 IF Ok(response) THEN AssistantMessage(response) ELSE FailedMessage(h),
               !.isLoading = FALSE]
  /\ UNCHANGED <<retryVars, routeVars, peer, upstream>>

SubmitAnswered == Answer("submit")

InitializeAnswered == Answer("initialize")

\* The display text of the initialize prompt.
InitializePromptDisplay ==
  "Initialize memory and analyze data for Growth at Acme. (details hidden)"

\* The page after a handler has appended the user's message and the thinking
\* message, set isLoading and sent its request.
Waiting ==
  {[handler |-> "submit", isLoading |-> TRUE,
    messages |-> <<Message("user", Query, FALSE, Null), Thinking>>],
   [handler |-> "initialize", isLoading |-> TRUE,
    messages |-> <<Message("user", InitializePromptDisplay, FALSE, Null), Thinking>>]}

\* The request the page has sent.
ChatRequest ==
  [messages |-> [kind |-> "array", turns |-> <<Turn("user", Str(Query))>>],
   model |-> "claude", fileData |-> NoFile, includeLiveData |-> FALSE,
   icfMapping |-> Icf(FALSE, "", "", "", "")]

\* The answers of POST that are not 200: a 400 of input validation and the
\* answers of the outer catch block.
FailedAnswers ==
  {BadRequest("Messages array is required"),
   ErrorResponse(Failure("gen", "APIError", 429, 3)),
   ErrorResponse(Failure("gen", "Error", NoStatus, 3))}

\* POST stands where the model has answered: with a tool invocation, alone or
\* after a text, or with a text only; or it has already answered with a
\* failure.
ServerLocals ==
  {[StartLocals(ChatRequest) EXCEPT
      !.rpc = "normalize", !.genResult = Success("gen", blocks, 1),
      !.anthropicMessages = <<Turn("user", Str(Query))>>,
      !.stages = [NoStages EXCEPT !.gen = "returned"]] :
     blocks \in ToolResponses \cup {<<TextBlock("AAPL is up.")>>}}
    \cup {[StartLocals(ChatRequest) EXCEPT
             !.rpc = "done", !.response = resp, !.responses = 1,
             !.anthropicMessages = <<Turn("user", Str(Query))>>] : resp \in FailedAnswers}

ChatInit ==
  /\ \E L \in ServerLocals : Running(L)
  /\ peer = NoPeer
  /\ upstream = <<>>
  /\ chat \in Waiting

ChatNext == NormalizeStep \/ SubmitAnswered \/ InitializeAnswered

ChatSpec == ChatInit /\ [][ChatNext]_vars

----------------------------------------------------------------------------
(* The retry executor run alone: claims C1, C2, C4, C6 (RetrySpec). *)

Calls == Len(outcomes)

Max(a, b) == IF a >= b THEN a ELSE b

\* C1: fn is called at most maxAttempts times; a successful call is the last
\* call and its value is what the executor returns; a 503 on a call that is
\* not the last allowed one does not end the run, so with maxAttempts = 3 the
\* run 503, 503, success returns the success value after exactly 3 calls.
C1_AtMostMaxAttemptsFirstSuccess ==
  /\ Calls <= Max(policy.maxRetries, 0)
  /\ \A i \in 1..Calls :
       outcomes[i].ok => /\ i = Calls
                         /\ pc = "returned"
                         /\ result = outcomes[i]
  /\ pc = "returned" => Calls >= 1 /\ outcomes[Calls].ok
  /\ \A i \in 1..Calls :
       (~outcomes[i].ok /\ outcomes[i].status = 503 /\ i < policy.maxRetries /\ i = Calls)
         => pc \in {"sleep", "call"}

C1_Witness ==
  /\ policy.maxRetries = 3
  /\ Calls = 3
  /\ outcomes[1].status = 503 /\ ~outcomes[1].ok
  /\ outcomes[2].status = 503 /\ ~outcomes[2].ok
  /\ outcomes[3].ok
  /\ pc = "returned"
  /\ result.val = outcomes[3].val

\* C2: a failure with a status in [400,500) other than 429 is rethrown at
\* once: it is the last call, it is the error thrown, and no sleep follows it
\* (the sleeps are those of the earlier failures only).
C2_ClientErrorNotRetried ==
  \A i \in 1..Calls :
    (/\ ~outcomes[i].ok
     /\ outcomes[i].status >= 400
     /\ outcomes[i].status < 500
     /\ outcomes[i].status # 429)
      => /\ i = Calls
         /\ pc = "thrown"
         /\ result = outcomes[i]
         /\ sleeps = i - 1

C2_Witness ==
  /\ policy.maxRetries = 3
  /\ ~policy.hasList
  /\ Calls = 1
  /\ outcomes[1].status = 401
  /\ pc = "thrown"
  /\ sleeps = 0

\* C4: when all maxAttempts calls have failed, the error thrown is the one of
\* the last call, not an earlier one and not the generic error, and the number
\* of sleeps is maxAttempts - 1.
C4_ExhaustionThrowsLastError ==
  (/\ policy.maxRetries >= 1
   /\ Calls = policy.maxRetries
   /\ \A i \in 1..Calls : ~outcomes[i].ok
   /\ pc \notin {"call", "sleep"})
    => /\ pc = "thrown"
       /\ result = outcomes[Calls]
       /\ result.at = policy.maxRetries
       /\ result # GenericError
       /\ sleeps = policy.maxRetries - 1

C4_Witness ==
  /\ policy.maxRetries = 3
  /\ Calls = 3
  /\ \A i \in 1..3 : outcomes[i].status = 503 /\ ~outcomes[i].ok
  /\ pc = "thrown"
  /\ result.at = 3
  /\ sleeps = 2

\* C6: the sleep after the failure of 0-based attempt k lasts
\* min(initialDelay * 2^k + jitter, maxDelay) with jitter >= 0, so it is at most
\* maxDelay and at least min(initialDelay * 2^k, maxDelay); it exceeds that
\* lower bound by no more than its jitter and the lower bound does not decrease
\* with k, so a later sleep is no shorter than this one less its jitter.
C6_BackoffDelayFormula ==
  pc = "sleep" =>
    LET k == attempt
        base == policy.initialDelay * (2 ^ k)
        lower == IF base <= policy.maxDelay THEN base ELSE policy.maxDelay
        baseNext == policy.initialDelay * (2 ^ (k + 1))
        lowerNext == IF baseNext <= policy.maxDelay THEN baseNext ELSE policy.maxDelay
    IN /\ Calls = k + 1
       /\ ~outcomes[Calls].ok
       /\ sleeps = k + 1
       /\ jitter >= 0
       /\ delay = (IF base + jitter <= policy.maxDelay THEN base + jitter ELSE policy.maxDelay)
       /\ delay <= policy.maxDelay
       /\ delay >= lower
       /\ delay - jitter <= lower
       /\ lowerNext >= lower

C6_Witness ==
  /\ pc = "sleep"
  /\ attempt = 1
  /\ policy.initialDelay = 1000
  /\ policy.maxDelay = 1500
  /\ jitter = 0
  /\ delay = 1500
  /\ delay < 2000 + jitter

----------------------------------------------------------------------------
(* The finance route: claims C3, C5, C7 to C10 (Spec, FairSpec). *)

\* The request passes input validation and file handling.
ValidRequest ==
  /\ ValidationError(req) = ""
  /\ HandleFile(req, ConvertMessages(req.messages.turns)).error = ""

\* The conversation as it stands before STEP 2.
BeforeFusion == HandleFile(req, ConvertMessages(req.messages.turns)).messages

\* The model has been called: anthropicMessages is what it was called with.
ModelCalled == stages.gen # "skipped"

\* C3: a failure with status 429, with any status >= 500, or without a status,
\* on a call that is not the last allowed one, does not end the run of the
\* executor, at any of the route's call sites.  (The original claim.)
C3_RetryableFailureIsRetried ==
  \A i \in 1..Calls :
    (/\ ~outcomes[i].ok
     /\ i < policy.maxRetries
     /\ (outcomes[i].status = 429 \/ outcomes[i].status >= 500
           \/ outcomes[i].status = NoStatus))
      => ~(i = Calls /\ pc = "thrown")

\* A run has ended: the route has answered, or the executor run alone has
\* returned or thrown.
Ended == rpc = "done" \/ (rpc = "idle" /\ pc \in {"returned", "thrown"})

\* C5: every run ends, after at most maxAttempts calls of fn at each call
\* site, and a request gets exactly one Response.
C5_EveryRunEnds ==
  /\ <>[](Ended /\ (rpc = "done" => responses = 1))
  /\ [](Calls <= Max(policy.maxRetries, 0) /\ Calls < MaxCalls)
  /\ [](responses <= 1 /\ (responses = 1 <=> rpc = "done"))

C5_Witness ==
  /\ rpc = "done"
  /\ responses = 1
  /\ stages.portfolio = "thrown"
  /\ stages.search = "thrown"
  /\ stages.gen = "thrown"
  /\ genResult.at = 3

\* C7: once the request is valid the model is called whatever the portfolio
\* fetch and the live-search call did, and the status and the error fields of
\* the Response are those of the model's call alone: 200 without an error when
\* it returned, and its own error otherwise, never the portfolio's or the
\* search's.
C7_SupplementaryFailuresNotSurfaced ==
  rpc = "done" =>
    IF ~ValidRequest
    THEN response.status = 400 /\ stages = NoStages
    ELSE /\ stages.gen \in {"returned", "thrown"}
         /\ genResult.src = "gen"
         /\ genResult.ok <=> stages.gen = "returned"
         /\ genResult.ok => response.status = 200 /\ response.error = ""
         /\ ~genResult.ok =>
              /\ response.error # ""
              /\ response.status = (IF genResult.val = "APIError"
                                    THEN (IF genResult.status = NoStatus THEN 200
                                          ELSE genResult.status)
                                    ELSE 500)
              /\ response.code = (IF genResult.val = "APIError" THEN genResult.status ELSE 0)
              /\ "gen call failed" \in {response.error, response.details}
         /\ {response.error, response.details}
              \cap {"portfolio call failed", "search call failed"} = {}

C7_Witness ==
  /\ rpc = "done"
  /\ stages.portfolio = "thrown"
  /\ stages.search = "thrown"
  /\ stages.gen = "returned"
  /\ response.status = 200
  /\ response.error = ""

\* C8 as first stated: with includeLiveData false or absent the conversation
\* the model is called with equals the request's, turn by turn.
C8_ConversationEqualsInput ==
  (ModelCalled /\ ~req.includeLiveData) =>
    /\ Len(anthropicMessages) = Len(req.messages.turns)
    /\ \A i \in 1..Len(anthropicMessages) :
         /\ anthropicMessages[i].role = req.messages.turns[i].role
         /\ anthropicMessages[i].content = req.messages.turns[i].content

\* The request carries a text file or an image.
AttachesFile == req.fileData.present /\ (req.fileData.isText \/ IsImage(req.fileData.mediaType))

\* C8, amended: with includeLiveData false or absent the conversation the
\* model is called with has the request's number of turns; every turn before
\* the last has the request's role and content; so has the last, unless the
\* request attaches a text file or an image, and then the last turn is the
\* user's turn the file handling builds: the file's part, then a text part that
\* holds the content of the request's last message.
C8_UnchangedButForTheFile ==
  (ModelCalled /\ ~req.includeLiveData) =>
    LET turns == req.messages.turns
        n == Len(turns)
    IN /\ Len(anthropicMessages) = n
       /\ \A i \in 1..(n - 1) :
            /\ anthropicMessages[i].role = turns[i].role
            /\ anthropicMessages[i].content = turns[i].content
       /\ (n > 0 /\ ~AttachesFile) =>
            /\ anthropicMessages[n].role = turns[n].role
            /\ anthropicMessages[n].content = turns[n].content
       /\ AttachesFile =>
            /\ n > 0
            /\ anthropicMessages[n].role = "user"
            /\ anthropicMessages[n].content.kind = "array"
            /\ Len(anthropicMessages[n].content.parts) = 2
            /\ anthropicMessages[n].content.parts[1].type
                 = (IF req.fileData.isText THEN "text" ELSE "image")
            /\ anthropicMessages[n].content.parts[2] = TextPart(turns[n].content)

C8_Witness ==
  /\ ModelCalled
  /\ ~req.includeLiveData
  /\ req.icfMapping.present
  /\ AttachesFile
  /\ ~req.fileData.isText
  /\ Len(anthropicMessages) = 2
  /\ anthropicMessages[2].content.parts[1].data = req.fileData.base64
  /\ anthropicMessages[2].role # req.messages.turns[2].role

\* C9: when neither the portfolio data nor the search data is there after
\* STEP 1, the model is called with the conversation as it stood before
\* STEP 2, and it is called for every valid request.
C9_NoSourceNoRewrite ==
  /\ (ModelCalled /\ ~stockData.present /\ ~perplexityData.present)
       => anthropicMessages = BeforeFusion
  /\ (rpc = "done" /\ ValidRequest) => ModelCalled
  /\ rpc = "gen" => ModelCalled /\ site = "gen"

C9_Witness ==
  /\ rpc = "done"
  /\ req.includeLiveData
  /\ stages.portfolio = "thrown"
  /\ stages.search = "thrown"
  /\ stages.gen = "returned"
  /\ extractedUserQuery = Query
  /\ anthropicMessages = BeforeFusion
  /\ anthropicMessages[Len(anthropicMessages)].content = Str(Query)

\* C10: whenever the model's call succeeds the Response is a 200 whose content
\* is not empty.  (The original claim.)
C10_ContentNeverEmpty ==
  (rpc = "done" /\ genResult.ok) => response.status = 200 /\ response.content # ""

----------------------------------------------------------------------------
(* The finance route: claims C11, C14 to C16 (Spec). *)

\* str.startsWith(pre)
StartsWith(str, pre) == Len(str) >= Len(pre) /\ SubSeq(str, 1, Len(pre)) = pre

\* str.indexOf(sub), counted from 1; 0 when sub does not occur in str
IndexOf(str, sub) ==
  LET hits == {i \in 1..(Len(str) - Len(sub) + 1) : SubSeq(str, i, i + Len(sub) - 1) = sub}
  IN IF hits = {} THEN 0 ELSE CHOOSE i \in hits : \A j \in hits : i <= j

\* The texts of the last turn of a conversation: its string content, or the
\* strings its text parts hold.
LastTexts(msgs) ==
  IF Len(msgs) = 0 THEN {}
  ELSE LET c == msgs[Len(msgs)].content
       IN IF c.kind = "string" THEN {c.text}
          ELSE {c.parts[i].text.text :
                  i \in {j \in 1..Len(c.parts) :
                           c.parts[j].type = "text" /\ c.parts[j].text.kind = "string"}}

\* The headings of the fused prompt.
QueryHeading == "Original Query: "

PortfolioHeading == "**STOCK/PORTFOLIO DATA"

SearchHeading == "**LIVE DATA FROM WEB SEARCH"

\* The last turn holds a fused prompt.
HasPrompt(msgs) == \E t \in LastTexts(msgs) : StartsWith(t, QueryHeading)

\* C11: with includeLiveData set, whenever the portfolio data or the search
\* data is there, the text of the last turn the model is called with is the
\* fused prompt, whatever the last turn is.  (The original claim.)
C11_PromptWheneverASourceIsThere ==
  (/\ ModelCalled
   /\ req.includeLiveData
   /\ Len(req.messages.turns) > 0
   /\ (stockData.present \/ perplexityData.present))
    => HasPrompt(anthropicMessages)

\* The three identifiers of icfMapping are there.
HasIdentifiers(r) ==
  /\ r.icfMapping.present
  /\ r.icfMapping.client_id # ""
  /\ r.icfMapping.investment_banker_id # ""
  /\ r.icfMapping.firm_name # ""

\* A stage that is over: skipped, returned or thrown.
Settled == {"skipped", "returned", "thrown"}

\* C14: for a valid request the portfolio fetch is attempted if and only if
\* includeLiveData is set and client_id, investment_banker_id and firm_name
\* are all there; when it is skipped no call of the portfolio service is made,
\* the search is still called whenever the query is not blank, the model is
\* called, and the answer carries no error of the skip.
C14_PortfolioFetchIffIdentifiers ==
  /\ (rpc # "start" /\ ValidRequest) =>
       (stages.portfolio # "skipped" <=> (req.includeLiveData /\ HasIdentifiers(req)))
  /\ (site = "portfolio" \/ \E i \in 1..Calls : outcomes[i].src = "portfolio") =>
       (req.includeLiveData /\ HasIdentifiers(req) /\ stages.portfolio = "entered")
  /\ (rpc = "done" /\ ValidRequest /\ stages.portfolio = "skipped") =>
       /\ ModelCalled
       /\ stages.search # "skipped" <=> (req.includeLiveData /\ Trim(ExtractQuery(req)) # "")
       /\ genResult.ok => response.status = 200 /\ response.error = ""

C14_Witness ==
  /\ rpc = "done"
  /\ req.includeLiveData
  /\ req.icfMapping.present
  /\ req.icfMapping.client_id = ""
  /\ req.icfMapping.firm_name # ""
  /\ req.icfMapping.investment_banker_id # ""
  /\ stages = [portfolio |-> "skipped", search |-> "returned", gen |-> "returned"]
  /\ response.status = 200

\* C15: the model is called only when the portfolio stage and the search
\* stage are over and the last turn has been rewritten: it is called with the
\* conversation STEP 2 leaves, and once it is called no portfolio or search
\* call is made and the conversation and the data of STEP 1 no longer change.
C15_ModelCalledAfterFusion ==
  /\ [](ModelCalled =>
          /\ stages.portfolio \in Settled
          /\ stages.search \in Settled
          /\ site \notin {"portfolio", "search"}
          /\ anthropicMessages
               = Fuse(req, BeforeFusion, extractedUserQuery, stockData, perplexityData)
          /\ (extractedUserQuery # "" /\ (stockData.present \/ perplexityData.present))
               => HasPrompt(anthropicMessages))
  /\ [][ModelCalled =>
          /\ site' \notin {"portfolio", "search"}
          /\ anthropicMessages' = anthropicMessages
          /\ stockData' = stockData
          /\ perplexityData' = perplexityData
          /\ stages'.portfolio = stages.portfolio
          /\ stages'.search = stages.search]_vars

C15_Witness ==
  /\ rpc = "gen"
  /\ pc = "sleep"
  /\ stages = [portfolio |-> "returned", search |-> "thrown", gen |-> "entered"]
  /\ stockData.present
  /\ HasPrompt(anthropicMessages)
  /\ anthropicMessages # BeforeFusion

\* C16: when the portfolio fetch has failed the search is still called
\* whenever the query is not blank, and when the search has failed the
\* portfolio data that was obtained is in the prompt the model is called with.
C16_OneFailureLeavesTheOther ==
  /\ []((stages.portfolio = "thrown" /\ rpc # "step1a") =>
          (stages.search # "skipped" <=> Trim(ExtractQuery(req)) # ""))
  /\ [][(rpc = "step1b" /\ rpc' = "gen" /\ pc = "thrown") =>
          /\ stages'.search = "thrown"
          /\ stockData' = stockData
          /\ stockData.present =>
               \E t \in LastTexts(anthropicMessages') :
                 /\ StartsWith(t, QueryHeading)
                 /\ IndexOf(t, PortfolioHeading) > 0
                 /\ IndexOf(t, StockSummary(stockData)) > IndexOf(t, PortfolioHeading)]_vars

C16_Witness ==
  /\ rpc = "done"
  /\ stages = [portfolio |-> "returned", search |-> "thrown", gen |-> "returned"]
  /\ stockData.present
  /\ ~perplexityData.present
  /\ \E t \in LastTexts(anthropicMessages) : IndexOf(t, PortfolioHeading) > 0

----------------------------------------------------------------------------
(* STEP 2 run alone: claims C12, C13 (FuseSpec). *)

\* STEP 2 has run and has rewritten the last turn.
Fused ==
  /\ rpc = "fused"
  /\ req.includeLiveData
  /\ extractedUserQuery # ""
  /\ (stockData.present \/ perplexityData.present)

\* The binary parts of a content array, in order.
ImagesOf(parts) == SelectSeq(parts, LAMBDA p : p.type = "image")

TextIndexes(parts) == {i \in 1..Len(parts) : parts[i].type = "text"}

\* The part holds a fused prompt.
IsPromptPart(p) ==
  p.type = "text" /\ p.text.kind = "string" /\ StartsWith(p.text.text, QueryHeading)

\* C12: when the last turn is an array of parts with an image among them,
\* STEP 2 puts the prompt in the first text part, where that part stands, or
\* in a new part ahead of the others when there is no text part; the image
\* parts are the same, in number, media type and data, every other part is
\* untouched, and so is every other turn.
C12_ImagePartsSurviveFusion ==
  LET before == req.messages.turns
      after == anthropicMessages
      n == Len(before)
  IN (Fused /\ before[n].content.kind = "array" /\ ImagesOf(before[n].content.parts) # <<>>)
       => LET bp == before[n].content.parts
              ap == after[n].content.parts
          IN /\ Len(after) = n
             /\ \A i \in 1..(n - 1) : after[i] = before[i]
             /\ after[n].role = before[n].role
             /\ after[n].content.kind = "array"
             /\ ImagesOf(ap) = ImagesOf(bp)
             /\ IF TextIndexes(bp) = {}
                THEN /\ Len(ap) = Len(bp) + 1
                     /\ IsPromptPart(ap[1])
                     /\ \A j \in 1..Len(bp) : ap[j + 1] = bp[j]
                ELSE LET i == CHOOSE k \in TextIndexes(bp) : \A m \in TextIndexes(bp) : k <= m
                     IN /\ Len(ap) = Len(bp)
                        /\ IsPromptPart(ap[i])
                        /\ \A j \in 1..Len(bp) : j # i => ap[j] = bp[j]

C12_Witness ==
  /\ Fused
  /\ Len(anthropicMessages) = 2
  /\ req.messages.turns[2].content = Arr(<<ImagePart("image/png", "iVBORw0=")>>)
  /\ Len(anthropicMessages[2].content.parts) = 2
  /\ IsPromptPart(anthropicMessages[2].content.parts[1])
  /\ anthropicMessages[2].content.parts[2] = ImagePart("image/png", "iVBORw0=")

\* The lines of the instruction list.
InstructionsHeading == "Please analyze the above query using:"

PortfolioInstruction == "- The current stock/portfolio data provided above"

SearchInstruction == "- The latest live market data from web search"

CombineInstruction == "- Combine both sources for comprehensive analysis"

\* C13: the prompt STEP 2 writes is the function EnhancedPrompt of the query,
\* the portfolio data, the search data and icfMapping: the query first, then
\* the portfolio section exactly when the portfolio data is there, then the
\* search section exactly when the search data is there, then the instruction
\* list, which names the portfolio source exactly when it is there, the search
\* source exactly when it is there, and tells to combine both exactly when
\* both are there.
C13_PromptSections ==
  Fused =>
    \E t \in LastTexts(anthropicMessages) :
      LET pf == IndexOf(t, PortfolioHeading)
          sr == IndexOf(t, SearchHeading)
          ins == IndexOf(t, InstructionsHeading)
          pi == IndexOf(t, PortfolioInstruction)
          si == IndexOf(t, SearchInstruction)
          ci == IndexOf(t, CombineInstruction)
      IN /\ t = EnhancedPrompt(extractedUserQuery, stockData, perplexityData, req.icfMapping)
         /\ StartsWith(t, QueryHeading \o extractedUserQuery \o "\n\n")
         /\ pf > 0 <=> stockData.present
         /\ sr > 0 <=> perplexityData.present
         /\ ins > 0
         /\ pf < ins /\ sr < ins
         /\ (pf > 0 /\ sr > 0) => pf < sr
         /\ pf > 0 => IndexOf(t, StockSummary(stockData)) > pf
         /\ sr > 0 => IndexOf(t, perplexityData.content) > sr
         /\ pi > 0 <=> stockData.present
         /\ si > 0 <=> perplexityData.present
         /\ ci > 0 <=> (stockData.present /\ perplexityData.present)
         /\ pi > 0 => pi > ins
         /\ si > 0 => si > ins /\ si > pi
         /\ ci > 0 => ci > si

C13_Witness ==
  /\ Fused
  /\ stockData.present
  /\ perplexityData.present
  /\ perplexityData.citationCount = 2
  /\ req.icfMapping.firm_account_name = ""
  /\ \E t \in LastTexts(anthropicMessages) :
       /\ IndexOf(t, "for Account at Acme") > 0
       /\ IndexOf(t, SearchHeading) > IndexOf(t, PortfolioHeading)
       /\ IndexOf(t, CombineInstruction) > 0

----------------------------------------------------------------------------
(* The handling of the model's response run alone: claims C17 to C20
   (NormalizeSpec). *)

\* The handling has answered.
Normalized == rpc = "normalized"

\* The input of the tool invocation the model answered with.
GivenInput ==
  LET tools == BlocksOfType(genResult.val, "tool_use") IN tools[1].input

\* The text of the model's answer, as POST returns it when there is no tool
\* invocation.
GivenText == FullTextContent(BlocksOfType(genResult.val, "text"))

\* The data is an array, natively or under one or two JSON encodings.
ArrayWithinTwo(d) ==
  \/ d.kind = "array"
  \/ /\ d.kind = "string"
     /\ d.inner # <<>>
     /\ \/ d.inner[1].kind = "array"
        \/ /\ d.inner[1].kind = "string"
           /\ d.inner[1].inner # <<>>
           /\ d.inner[1].inner[1].kind = "array"

\* The array ArrayWithinTwo finds.
DecodedRows(d) ==
  IF d.kind = "array" THEN d.rows
  ELSE IF d.inner[1].kind = "array" THEN d.inner[1].rows
  ELSE d.inner[1].inner[1].rows

\* The input has what processToolResponse reads: a chartType, an array for
\* data, a chartConfig, and for a pie chart a config.
Normalizable(in) ==
  /\ in.chartType # ""
  /\ ArrayWithinTwo(in.data)
  /\ in.chartConfig.present
  /\ in.chartType = "pie" => in.config.present

\* C17: a tool invocation whose input cannot be normalized does not fail the
\* request: POST answers 200 without an error, with chartData null and with
\* the content it answers with when there is no tool invocation.
C17_MalformedToolNeverFails ==
  (Normalized /\ ~Normalizable(GivenInput)) =>
    /\ response.status = 200
    /\ response.error = ""
    /\ response.chartData = Null
    /\ response.content = GivenText
    /\ response.hasToolUse

C17_Witness ==
  /\ Normalized
  /\ GivenInput.chartType = "pie"
  /\ GivenInput.data = DArray(SalesRows)
  /\ GivenInput.config.present
  /\ ~GivenInput.chartConfig.present
  /\ response.status = 200
  /\ response.chartData = Null
  /\ response.content = "AAPL is up."

\* C18: a payload that processToolResponse returns has an array for data,
\* never a string: a string is parsed, and parsed again when the result is
\* still a string; data that is an array within these two steps is accepted
\* as that array, and data that is not, or is missing, or comes without a
\* chartType, gives no payload.
C18_ReturnedDataIsArray ==
  Normalized =>
    /\ response.chartData # Null =>
         /\ response.chartData.data.kind = "array"
         /\ response.chartData.chartType # ""
         /\ ArrayWithinTwo(GivenInput.data)
         /\ Len(response.chartData.data.rows) = Len(DecodedRows(GivenInput.data))
    /\ (~ArrayWithinTwo(GivenInput.data) \/ GivenInput.chartType = "")
         => response.chartData = Null
    /\ Normalizable(GivenInput) => response.chartData # Null

C18_Witness ==
  /\ Normalized
  /\ GivenInput.chartType = "bar"
  /\ GivenInput.data = Stringify(Stringify(DArray(SalesRows)))
  /\ response.chartData # Null
  /\ response.chartData.data = DArray(SalesRows)

\* The keys of a record.
KeysOf(row) == {row[i].k : i \in 1..Len(row)}

\* C19: in a payload that processToolResponse returns, every key of
\* chartConfig is a field of every record of data, for every chart type.
\* (The original claim.)
C19_SeriesKeysAreDataFields ==
  (Normalized /\ response.chartData # Null) =>
    \A i \in 1..Len(response.chartData.chartConfig.series) :
      \A j \in 1..Len(response.chartData.data.rows) :
        response.chartData.chartConfig.series[i].key
          \in KeysOf(response.chartData.data.rows[j])

\* C20: for a pie chart every record of the payload has the two keys segment
\* and value and no other, and config.xAxisKey is "segment"; the records
\* {region: US, sales: 10}, {region: EU, sales: 5} with chartConfig {sales}
\* and xAxisKey region become {segment: US, value: 10}, {segment: EU,
\* value: 5}.  For any other chart type the records and config.xAxisKey are
\* those of the input.
C20_PieRecordsSegmentValue ==
  (Normalized /\ response.chartData # Null) =>
    LET out == response.chartData
        in == GivenInput
    IN IF in.chartType = "pie"
       THEN /\ \A j \in 1..Len(out.data.rows) :
                 /\ Len(out.data.rows[j]) = 2
                 /\ out.data.rows[j][1].k = "segment"
                 /\ out.data.rows[j][2].k = "value"
            /\ out.config.xAxisKey = "segment"
            /\ (/\ DecodedRows(in.data) = SalesRows
                /\ in.chartConfig.series = SalesSeries.series
                /\ in.config.xAxisKey = "region")
                 => out.data.rows
                      = <<<<Field("segment", Text("US")), Field("value", Num(10))>>,
                          <<Field("segment", Text("EU")), Field("value", Num(5))>>>>
       ELSE /\ out.data.rows = DecodedRows(in.data)
            /\ out.config = in.config

C20_Witness ==
  /\ Normalized
  /\ GivenInput = ToolInput("pie", Config(TRUE, "region"), DArray(SalesRows), SalesSeries)
  /\ response.chartData # Null
  /\ response.chartData.config.xAxisKey = "segment"
  /\ response.chartData.data.rows[2]
       = <<Field("segment", Text("EU")), Field("value", Num(5))>>

----------------------------------------------------------------------------
(* The fields of the pie records: claim C21 (NormalizeSpec). *)

Has(row, key) == key \in KeysOf(row)

\* The field segment as the claim has it: the field named by xKey when the
\* record has it, else the first of segment, category, name it has.
SegmentByPresence(row, xKey) ==
  IF Has(row, xKey) THEN Get(row, xKey)
  ELSE IF Has(row, "segment") THEN Get(row, "segment")
  ELSE IF Has(row, "category") THEN Get(row, "category")
  ELSE Get(row, "name")

\* The field value as the claim has it: the field named by vKey when the
\* record has it, else the field value.
ValueByPresence(row, vKey) ==
  IF Has(row, vKey) THEN Get(row, vKey) ELSE Get(row, "value")

\* C21: in the pie remap, segment is the record's field named by
\* config.xAxisKey (default segment) whenever the record has that field, else
\* its field segment, category or name in that order; value is the record's
\* field named by the first key declared in chartConfig whenever the record
\* has it, else its field value; for every value a field may hold, 0, the
\* empty string and false included.  (The original claim.)
C21_PieFieldsByPresence ==
  (Normalized /\ response.chartData # Null /\ GivenInput.chartType = "pie") =>
    LET in == GivenInput
        rows == DecodedRows(in.data)
        out == response.chartData.data.rows
        xKey == IF in.config.xAxisKey = "" THEN "segment" ELSE in.config.xAxisKey
        vKey == IF Len(in.chartConfig.series) > 0
                THEN in.chartConfig.series[1].key ELSE "value"
    IN \A j \in 1..Len(rows) :
         /\ Get(out[j], "segment") = SegmentByPresence(rows[j], xKey)
         /\ Get(out[j], "value") = ValueByPresence(rows[j], vKey)

----------------------------------------------------------------------------
(* The colors of the series: claim C22 (NormalizeSpec). *)

\* C22: after a successful normalization every series of chartConfig has a
\* color, given by the order of declaration: the i-th declared series has
\* hsl(var(--chart-i)), whatever color the model gave it, and keeps its label
\* and stacked flag; the payload has the declared series and no other.  This
\* for every set of keys, keys that look like integers included.
\* (The original claim.)
C22_ColorsByDeclarationOrder ==
  (Normalized /\ response.chartData # Null) =>
    LET declared == GivenInput.chartConfig.series
        out == response.chartData.chartConfig.series
    IN /\ Len(out) = Len(declared)
       /\ \A i \in 1..Len(declared) :
            \E j \in 1..Len(out) :
              /\ out[j].key = declared[i].key
              /\ out[j].color = ChartColor(i)
              /\ out[j].label = declared[i].label
              /\ out[j].stacked = declared[i].stacked

----------------------------------------------------------------------------
(* The repair of the data: claim C23 (NormalizeSpec). *)

\* The data is JSON.stringify(A) or JSON.stringify(JSON.stringify(A)) of an
\* array A.
EncodedArray(d) == d.kind = "string" /\ ArrayWithinTwo(d)

\* The tool input with A passed as it is.
NativeInput(in) == [in EXCEPT !.data = DArray(DecodedRows(in.data))]

\* processedChartData for a tool input: what processToolResponse returns, and
\* null when it throws.
Payload(in) ==
  LET p == ProcessToolResponse(in) IN IF p.threw THEN Null ELSE p.chart

\* C23: a tool input whose data is an array JSON encoded once or twice gives
\* the payload that the same input gives with the array passed natively.
C23_EncodedDataRoundTrip ==
  (Normalized /\ EncodedArray(GivenInput.data)) =>
    response.chartData = Payload(NativeInput(GivenInput))

C23_Witness ==
  /\ Normalized
  /\ GivenInput.data = Stringify(Stringify(DArray(FalsyRows)))
  /\ GivenInput.chartType = "bar"
  /\ GivenInput.chartConfig = SalesSeries
  /\ response.chartData # Null
  /\ response.chartData.data = DArray(FalsyRows)
  /\ response.chartData = Payload(NativeInput(GivenInput))

----------------------------------------------------------------------------
(* The handling applied to its own payload: claim C24 (RenormalizeSpec). *)

\* The handling has answered for the payload of its first answer.
Renormalized == rpc = "renormalized"

\* C24: for a chart that is no pie chart, the handling applied to a payload
\* it has returned returns that payload: chartType, config, data and the
\* label, stacked flag and color of every series are those of the first
\* application.
C24_NormalizationIdempotent ==
  (Renormalized /\ GivenInput.chartType # "pie") =>
    /\ response.chartData # Null
    /\ response.chartData = GivenInput
    /\ \A i \in 1..Len(GivenInput.chartConfig.series) :
         response.chartData.chartConfig.series[i].color = ChartColor(i)

C24_Witness ==
  /\ Renormalized
  /\ GivenInput.chartType = "bar"
  /\ GivenInput.data = DArray(SalesRows)
  /\ Len(GivenInput.chartConfig.series) = 2
  /\ GivenInput.chartConfig.series[1].key = "profit"
  /\ GivenInput.chartConfig.series[2].color = ChartColor(2)
  /\ response.chartData = GivenInput

----------------------------------------------------------------------------
(* The failure responses of POST: claim C25 (Spec). *)

\* POST has answered for a call of the model that failed.
GenFailed == rpc = "done" /\ stages.gen = "thrown"

\* C25: the response to a failure of the call of the model has the status of
\* the failure where the error carries one and 500 where it carries none, and
\* never a status from 200 to 299.  (The original claim.)
C25_FailureStatusMirrorsUpstream ==
  GenFailed =>
    /\ response.status = (IF genResult.status = NoStatus THEN 500 ELSE genResult.status)
    /\ response.status \notin 200..299

----------------------------------------------------------------------------
(* The live-search route: claims C26 (LiveSpec) and C27 (RoutesSpec). *)

\* The live-search route has answered for a call of the search service that
\* failed.
LiveFailed == rpc = "liveDone" /\ genResult # NoResult /\ ~genResult.ok

\* C26: in the live-search route a 401 of the search service is its last
\* call (the first call, when the first answer is a 401) and is answered
\* with 401 and the authentication message; a 429 is answered with 429 and
\* the rate-limit message, and only as the answer of the third attempt; any
\* other failure is answered with the generic message and the status of the
\* error, 500 when it has none.  In all three cases success is false,
\* content is empty and citations is the empty list.
C26_LiveSearchThreeOutcomes ==
  /\ site = "live" =>
       \A i \in 1..Len(outcomes) :
         (~outcomes[i].ok /\ outcomes[i].status = 401) =>
           (i = Len(outcomes) /\ pc = "thrown" /\ result = outcomes[i])
  /\ LiveFailed =>
       /\ ~response.success
       /\ response.content = ""
       /\ response.citations = <<>>
       /\ genResult.status = 401 =>
            /\ response.status = 401
            /\ response.error = "Invalid API key. Please check your PERPLEXITY_API_KEY."
       /\ genResult.status = 429 =>
            /\ response.status = 429
            /\ response.error = "Rate limit exceeded. Please try again later."
            /\ genResult.at = 3
       /\ genResult.status \notin {401, 429} =>
            /\ response.status = (IF genResult.status = NoStatus THEN 500
                                  ELSE genResult.status)
            /\ StartsWith(response.error, "API error: ")

C26_Witness ==
  /\ LiveFailed
  /\ genResult.status = 429
  /\ genResult.at = 3
  /\ response = LiveResponse(429, FALSE, "Rate limit exceeded. Please try again later.",
                             "", <<>>)

\* The string has no character that is not white space.
Blank(t) == \A i \in 1..Len(t) : IsSpace(SubSeq(t, i, i))

\* The query of the live-search request is missing, empty or white space.
NoQuery(q) == q.kind = "absent" \/ (q.kind = "string" /\ Blank(q.text))

\* C27: the live-search route answers a missing, empty or whitespace-only
\* query with 400 without entering the executor, so without a call of the
\* search service; and the finance route enters STEP 1b's call of the
\* live-search route only with a query that is not empty or whitespace-only.
C27_NoCallWithoutQuery ==
  /\ (rpc \in {"liveCall", "liveDone"} /\ req.json /\ NoQuery(req.query)) =>
       /\ rpc = "liveDone"
       /\ response.status = 400
       /\ ~response.success
       /\ genResult = NoResult
       /\ site = "none"
       /\ outcomes = <<>>
  /\ (site = "search" \/ stages.search # "skipped") => ~Blank(extractedUserQuery)

C27_Witness ==
  /\ rpc = "liveDone"
  /\ req.query = QString(" ")
  /\ req.apiKey
  /\ response = LiveResponse(400, FALSE, "Query cannot be empty", "", <<>>)
  /\ genResult = NoResult

----------------------------------------------------------------------------
(* Input validation of the finance route: claim C28 (Spec). *)

\* C28: a request whose messages is absent or no array, or whose model is
\* absent, is answered with 400 in the step that reads it: no stage is
\* entered, the executor is never started, no call is made and nothing
\* sleeps.
C28_InvalidInputAnswered400 ==
  /\ (rpc # "start" /\ (req.messages.kind # "array" \/ req.model = "")) =>
       /\ rpc = "done"
       /\ responses = 1
       /\ response.status = 400
       /\ response.error = (IF req.messages.kind # "array"
                            THEN "Messages array is required"
                            ELSE "Model selection is required")
       /\ stages = NoStages
       /\ genResult = NoResult
  /\ (site # "none" \/ Len(outcomes) > 0 \/ sleeps > 0) =>
       (req.messages.kind = "array" /\ req.model # "")

C28_Witness ==
  /\ rpc = "done"
  /\ req.messages.kind = "array"
  /\ Len(req.messages.turns) > 0
  /\ req.model = ""
  /\ req.includeLiveData
  /\ IcfComplete(req.icfMapping)
  /\ response = BadRequest("Model selection is required")
  /\ stages = NoStages

----------------------------------------------------------------------------
(* The blocks of the model's response: claims C29 and C30 (SelectSpec). *)

\* The least of a non-empty set of numbers.
Least(S) == CHOOSE i \in S : \A j \in S : i <= j

\* The place of the tool invocation the claim has POST process: the first
\* one named generate_graph_data, else the first one, and 0 when there is
\* none.
Preferred(blocks) ==
  LET tools == {i \in 1..Len(blocks) : blocks[i].type = "tool_use"}
      graphs == {i \in tools : blocks[i].name = "generate_graph_data"}
  IN IF graphs # {} THEN Least(graphs)
     ELSE IF tools # {} THEN Least(tools)
     ELSE 0

RECURSIVE BlankLineJoin(_)
BlankLineJoin(texts) ==
  IF Len(texts) = 0 THEN ""
  ELSE IF Len(texts) = 1 THEN texts[1]
  ELSE texts[1] \o "\n\n" \o BlankLineJoin(Tail(texts))

\* C30: the content of a 200 answer is the texts of the text blocks of the
\* model's response, every one of them and in their order, joined by a blank
\* line; the tool invocations add nothing to it.
C30_ContentIsAllTextsInOrder ==
  Normalized =>
    LET texts == SelectSeq(genResult.val, LAMBDA b : b.type = "text")
    IN /\ response.status = 200
       /\ response.content = BlankLineJoin([i \in 1..Len(texts) |-> texts[i].text])

C30_Witness ==
  /\ Normalized
  /\ genResult.val = <<TextBlock("See the table."),
                       ToolBlock("generate_graph_data", "tuC", BarInput),
                       TextBlock("AAPL is up.")>>
  /\ response.content = "See the table.\n\nAAPL is up."

----------------------------------------------------------------------------
(* The portfolio data in the prompt: claim C31 (TruncateSpec). *)

\* The end of the heading of the portfolio section.
PortfolioHeadingEnd == "):**\n"

\* C31: the portfolio section of the fused prompt holds the first 3000
\* characters of the rendering of the portfolio data and no more: a
\* rendering of 10,000 characters gives exactly 3000 characters between the
\* heading and the rule that closes the section, and a rendering of 3000
\* characters or fewer is there whole.
C31_PortfolioDataCutTo3000 ==
  (Fused /\ stockData.present) =>
    \E t \in LastTexts(anthropicMessages) :
      LET h == IndexOf(t, PortfolioHeadingEnd)
          from == h + Len(PortfolioHeadingEnd)
          n == IF Len(stockData.json) <= 3000 THEN Len(stockData.json) ELSE 3000
      IN /\ h > 0
         /\ SubSeq(t, from, from + n - 1) = SubSeq(stockData.json, 1, n)
         /\ SubSeq(t, from + n, from + n + 4) = "\n---\n"

C31_Witness ==
  /\ Fused
  /\ Len(stockData.json) = 10000
  /\ \E t \in LastTexts(anthropicMessages) :
       LET from == IndexOf(t, PortfolioHeadingEnd) + Len(PortfolioHeadingEnd)
       IN /\ SubSeq(t, from, from + 2999) = SubSeq(stockData.json, 1, 3000)
          /\ SubSeq(t, from + 3000, from + 3004) = "\n---\n"

----------------------------------------------------------------------------
(* Two requests in flight: claim C32 (PairSpec). *)

\* The policy the executor is entered with at each call site of POST.
SitePolicy(s) ==
  CASE s = "portfolio" -> PortfolioPolicy
    [] s = "search" -> SearchPolicy
    [] s = "gen" -> GenPolicy
    [] OTHER -> Policy(0, 0, 0, FALSE)

\* The locals L are those of a request that runs alone: the executor is at
\* the call site POST stands at; its loop variable counts the sleeps of this
\* request, its calls are this request's and no more than maxRetries, and
\* its delay is made of this request's attempt and jitter; the data are
\* those this request fetched; the conversation is made of this request's
\* messages and data; and the response is made of what the model answered
\* to this request.
Alone(L) ==
  /\ L.site = (CASE L.rpc = "step1a" -> "portfolio"
                 [] L.rpc = "step1b" -> "search"
                 [] L.rpc = "gen" -> "gen"
                 [] OTHER -> "none")
  /\ L.policy = SitePolicy(L.site)
  /\ L.attempt = L.sleeps - (IF L.pc = "sleep" THEN 1 ELSE 0)
  /\ Len(L.outcomes) = L.sleeps + (IF L.pc \in {"returned", "thrown"} THEN 1 ELSE 0)
  /\ Len(L.outcomes) <= L.policy.maxRetries
  /\ \A i \in 1..Len(L.outcomes) : L.outcomes[i].src = L.site /\ L.outcomes[i].at = i
  /\ L.pc = "sleep" =>
       L.delay = Min(L.policy.initialDelay * Pow2(L.attempt) + L.jitter, L.policy.maxDelay)
  /\ L.stockData.present => (L.req.includeLiveData /\ L.stages.portfolio = "returned")
  /\ L.perplexityData.present => (L.req.includeLiveData /\ L.stages.search = "returned")
  /\ L.stages.gen # "skipped" =>
       L.anthropicMessages
         = Fuse(L.req, HandleFile(L.req, ConvertMessages(L.req.messages.turns)).messages,
                L.extractedUserQuery, L.stockData, L.perplexityData)
  /\ L.rpc = "done" =>
       /\ L.responses = 1
       /\ L.response = (IF L.stages.gen = "returned" THEN SuccessResponses[L.genResult.val]
                        ELSE IF L.stages.gen = "thrown" THEN ErrorResponse(L.genResult)
                        ELSE BadRequest(L.response.error))
  /\ L.rpc # "done" => L.responses = 0

\* C32: with two requests in flight, under every interleaving of their
\* steps, retries and sleeps, each request has the call counts, the
\* conversation and the response of a request that runs alone; a step of one
\* request changes no local of the other, and a request that runs on finds
\* its locals as it left them.
C32_RequestsShareNothing ==
  /\ [](Alone(Locals) /\ (peer # NoPeer => Alone(peer)))
  /\ [][peer' = peer \/ (peer' = Locals /\ Locals' = peer)]_vars

C32_Witness ==
  /\ peer # NoPeer
  /\ rpc = "done"
  /\ peer.rpc = "done"
  /\ req = FirstRequest
  /\ genResult.ok
  /\ genResult.at = 3
  /\ peer.genResult.ok
  /\ peer.genResult.at = 2
  /\ perplexityData.present
  /\ HasPrompt(anthropicMessages)
  /\ peer.anthropicMessages = ConvertMessages(peer.req.messages.turns)
  /\ response.status = 200
  /\ peer.response.status = 200

----------------------------------------------------------------------------
(* C33: the retries of the two layers. *)

\* The layers: the outer executor makes at most 2 attempts, and each is one
\* request to the live-search route, whose executor makes at most 3.
LayeredBound == SearchPolicy.maxRetries * LivePolicy.maxRetries

\* A step that sends a request to the live-search route again.
Reinvokes == rpc = "step1b" /\ rpc' = "live" /\ Len(outcomes) > 0

\* The search service is called at most 6 times, and never again after it
\* has answered 401.
CallsBounded ==
  /\ Len(upstream) <= LayeredBound
  /\ \A i \in 1..Len(upstream) : upstream[i] = 401 => i = Len(upstream)

\* C33 as stated: for one finance request the search service is called at
\* most 6 times, and once only when it answers 401; and the outer executor
\* sends a request to the live-search route again only when the route
\* answered the last one with 429, 500, 502, 503 or 504.
C33_ReinvokedOnlyOnListedAnswer ==
  /\ []CallsBounded
  /\ [][Reinvokes => outcomes[Len(outcomes)].status \in RetryableList]_vars

\* C33: for one finance request the search service is called at most 6 times,
\* and once only when it answers 401; and the outer executor sends a request
\* to the live-search route again only when the route answered the last one
\* with 429, 500, 502, 503 or 504, or when the last fetch failed without an
\* answer (its error carries no status).
C33_LayeredRetryBound ==
  /\ []CallsBounded
  /\ [][Reinvokes => /\ ~outcomes[Len(outcomes)].ok
                      /\ outcomes[Len(outcomes)].status \in RetryableList \cup {NoStatus}]_vars

\* The search service has failed three calls of the first request of the
\* route, which answered 503; the route was sent a second request, and on its
\* third call the search service answered 401; STEP 1b has ended.
C33_Witness ==
  /\ rpc = "gen"
  /\ stages.search = "thrown"
  /\ Len(upstream) = LayeredBound
  /\ upstream[3] = 503
  /\ upstream[LayeredBound] = 401
  /\ ~perplexityData.present

----------------------------------------------------------------------------
(* C34: the tool invocation in the Response (NormalizeSpec). *)

\* C34: in the Response, toolUse.input is the input of the tool invocation
\* as the model emitted it: data in its encoding and record shape and
\* config.xAxisKey as given, whether the handling returned a payload or
\* threw.
C34_ToolInputAsEmitted ==
  Normalized => (response.toolUse # Null /\ response.toolUse.input = GivenInput)

----------------------------------------------------------------------------
(* C35: a text file and live data (Spec). *)

\* The part the file handling builds from a text file.
FileContentsPart ==
  TextPart(Str("File contents of " \o req.fileData.fileName \o ":\n\n"
               \o DecodeText(req.fileData.base64)))

\* C35: when the request attaches a text file and has includeLiveData, the
\* last turn of the conversation the model is called with still has the part
\* holding the contents of the file, as the file handling built it.
C35_FileContentsSurviveFusion ==
  (ModelCalled /\ req.fileData.present /\ req.fileData.isText /\ req.includeLiveData) =>
    LET last == anthropicMessages[Len(anthropicMessages)].content
    IN /\ last.kind = "array"
       /\ \E i \in 1..Len(last.parts) : last.parts[i] = FileContentsPart

----------------------------------------------------------------------------
(* C36: the chart of the stored assistant message (ChatSpec). *)

\* A handler of the chat page has stored the assistant message.
Stored == chat.handler # "none" /\ ~chat.isLoading

\* The message that replaced the thinking one.
StoredMessage == chat.messages[Len(chat.messages)]

\* C36: after a 200 answer whose chartData is null the assistant message the
\* handler stores has chartData null, and a chartData that is not null is
\* the chartData of the answer.
C36_OnlyNormalizedChartStored ==
  (Stored /\ response.status = 200) => StoredMessage.chartData = response.chartData

----------------------------------------------------------------------------
(* C37: the tool fields of a 200 answer (Spec). *)

\* C37: in every answer with status 200, hasToolUse is true exactly when
\* toolUse is not null, and chartData is not null only when toolUse is not
\* null.
C37_ToolFieldsAgree ==
  (rpc = "done" /\ response.status = 200) =>
    /\ response.hasToolUse <=> response.toolUse # Null
    /\ response.chartData # Null => response.toolUse # Null

\* The model has answered with a text and a tool invocation whose handling
\* throws: the answer has the invocation and no chart.
C37_Witness ==
  /\ rpc = "done"
  /\ response.status = 200
  /\ genResult.ok
  /\ genResult.val = "textBadTool"
  /\ response.hasToolUse
  /\ response.toolUse # Null
  /\ response.chartData = Null
  /\ response.content = "AAPL is up."

----------------------------------------------------------------------------
(* C38: an empty conversation (Spec). *)

\* messages is an array without a turn.
EmptyConversation == req.messages.kind = "array" /\ Len(req.messages.turns) = 0

\* C38: the model is called with a conversation of at least one turn; a
\* request whose messages is an empty array is answered 400 and no portfolio,
\* live-search or generative call is made for it.
C38_ModelNeverGivenEmptyConversation ==
  /\ ModelCalled => Len(anthropicMessages) >= 1
  /\ EmptyConversation => stages = NoStages
  /\ (EmptyConversation /\ rpc = "done") => response.status = 400

====
